---- MODULE Spec2Model ----
(***************************************************************************)
(* Turn / round resolution engine of the Reversus board-and-card game.     *)
(*                                                                         *)
(* The engine is a chain of JavaScript async functions.  Between two       *)
(* suspension points (a timer, a modal acknowledgement, the turn           *)
(* indicator) the code runs to completion, so one action of this module is *)
(* the code run by one resumption.  A suspended call chain is a task: the  *)
(* sequence of its frames, innermost first.  An operator that models a     *)
(* function maps a world record w to the world after the call; w.cur is    *)
(* <<>> when the call completed and holds the suspended frames otherwise.  *)
(***************************************************************************)
EXTENDS Integers, Sequences, FiniteSets, TLC

VARIABLES gameState, tasks, storyWinLoss, gameOverShown, history, obs, achievements

vars == <<gameState, tasks, storyWinLoss, gameOverShown, history, obs, achievements>>

----------------------------------------------------------------------------
(* Bounds of the model *)

MaxTurn == 3
MaxHearts == 2
MaxCooldown == 1

(* Program constants *)

WINNING_POSITION == 10
MAX_VALUE_CARDS_IN_HAND == 2
MAX_EFFECT_CARDS_IN_HAND == 1
NECRO_X_BONUS == 10
RESTO_MAIOR_VALUE == 10
RESTO_MENOR_VALUE == 2
CASTIGO_STEPS == 3
DESAFIO_ADVANCE == 3

TEAM_A == {1, 3}
TEAM_B == {2, 4}
FINAL_TEAM_PLAYER == {1, 4}
FINAL_TEAM_NECRO == {2, 3}

----------------------------------------------------------------------------
(* Cards *)

Null == [id |-> 0, type |-> "none", name |-> "null", value |-> 0]

ValueCard(i, v) == [id |-> i, type |-> "value", name |-> "v", value |-> v]

EffectCard(i, n) == [id |-> 100 + i, type |-> "effect", name |-> n, value |-> 0]

MkValueDeck(vals) == [k \in 1..Len(vals) |-> ValueCard(k, vals[k])]

MkEffectDeck(names) == [k \in 1..Len(names) |-> EffectCard(k, names[k])]

RECURSIVE SumValues(_)
SumValues(cards) ==
    IF cards = <<>> THEN 0 ELSE Head(cards).value + SumValues(Tail(cards))

CountType(hand, t) == Len(SelectSeq(hand, LAMBDA c : c.type = t))

RemoveAt(s, k) == SubSeq(s, 1, k - 1) \o SubSeq(s, k + 1, Len(s))

SeqToSet(s) == {s[k] : k \in 1..Len(s)}

Min(a, b) == IF a < b THEN a ELSE b

Max(a, b) == IF a > b THEN a ELSE b

----------------------------------------------------------------------------
(* Frames of suspended calls *)

Frame(pc) ==
    [pc |-> pc, p |-> 0, i |-> 0, orig |-> 0, winners |-> <<>>,
     path |-> -1, pos |-> 0, drawn |-> <<>>]

(* What the last step did (obs) and what the match has done so far (history) are
   kept for the statement of properties; the program does not read them *)
NoObs ==
    [advNoop |-> FALSE, cge |-> <<>>, roundEnded |-> FALSE,
     fired |-> FALSE, refired |-> FALSE, skippedUsed |-> FALSE, began |-> FALSE,
     resolved |-> FALSE, seeded |-> FALSE, before |-> <<>>,
     aiFailed |-> FALSE, dealFailed |-> FALSE, redraw |-> FALSE, elim |-> <<>>,
     nulls |-> <<>>, redrawFail |-> <<>>, over |-> FALSE, adv |-> <<>>,
     scored |-> <<>>, moved |-> <<>>, pass |-> <<>>, tfe |-> "none", lastCall |-> 0,
     reset |-> <<>>, granted |-> "null"]

(* The player ends a turn; a card is played or a round starts *)
NotePass(w, id) == [w EXCEPT !.hist.passes[id] = @ + 1]

(* startNewRound has reset the state from of the round before *)
NoteReset(w, from, isFirstRound) ==
    [w EXCEPT !.obs.reset =
        <<[first |-> isFirstRound,
           before |-> [turn |-> from.turn, players |-> from.players,
                       discardPiles |-> from.discardPiles],
           after |-> [turn |-> w.gs.turn, players |-> w.gs.players,
                      discardPiles |-> w.gs.discardPiles,
                      consecutivePasses |-> w.gs.consecutivePasses,
                      activeFieldEffects |-> w.gs.activeFieldEffects,
                      revealedHands |-> w.gs.revealedHands]]>>]

NoPasses(w) == [w EXCEPT !.hist.passes = [id \in DOMAIN @ |-> 0], !.hist.calls.run = 0]

(* A round starts *)
NoCalls(w) == [w EXCEPT !.hist.calls.n = 0]

(* The effect of the space at pos of path takes place *)
Fire(w, path, pos) ==
    [w EXCEPT !.obs.fired = TRUE,
              !.obs.refired = @ \/ <<path, pos>> \in w.hist.fired,
              !.hist.fired = @ \cup {<<path, pos>>}]

(* The field effects of the list effects, by name and target *)
Named(effects) ==
    [k \in 1..Len(effects) |-> [name |-> effects[k].name, appliesTo |-> effects[k].appliesTo]]

(* A field effect is recorded for the player id in the round numbered w.gs.turn *)
NoteEffect(w, name, id) ==
    [w EXCEPT !.hist.noted =
        [turn |-> w.gs.turn,
         recs |-> (IF @.turn = w.gs.turn THEN @.recs ELSE <<>>)
                  \o <<[name |-> name, appliesTo |-> id]>>]]

(* The space at pos of path does did to the player id in a pass of triggerFieldEffects *)
Visit(w, id, path, pos, did) ==
    [w EXCEPT !.hist.visits =
        Append(@, [id |-> id, path |-> path, pos |-> pos, did |-> did,
                   hearts |-> w.gs.necroversoHearts,
                   color |-> w.gs.boardPaths[path][pos].color,
                   effectName |-> w.gs.boardPaths[path][pos].effectName])]

(* The pass is over: by the end of its loop ("done") or by a return ("stopped") *)
EndPass(w, how) ==
    [w EXCEPT !.obs.pass = w.hist.visits, !.obs.tfe = how, !.hist.visits = <<>>]

Suspend(w, f) == [w EXCEPT !.cur = <<f>>]

(* An awaited call has suspended: the caller, with work left, waits under it *)
AwaitUnder(w, f) == [w EXCEPT !.cur = Append(w.cur, f)]

(* A call that is not awaited: its suspended chain lives on by itself *)
Detach(w) ==
    IF w.cur = <<>> THEN w
    ELSE [w EXCEPT !.tasks = Append(w.tasks, w.cur), !.cur = <<>>]

----------------------------------------------------------------------------
(* Players *)

NP(gs) == Len(gs.playerIdsInGame)

ActivePlayers(gs) ==
    SelectSeq(gs.playerIdsInGame, LAMBDA id : ~gs.players[id].isEliminated)

IndexOf(s, x) ==
    IF \E k \in 1..Len(s) : s[k] = x
    THEN (CHOOSE k \in 1..Len(s) : s[k] = x /\ \A j \in 1..(k - 1) : s[j] # x) - 1
    ELSE -1

HasFieldEffect(gs, name, id) ==
    \E k \in 1..Len(gs.activeFieldEffects) :
        /\ gs.activeFieldEffects[k].name = name
        /\ gs.activeFieldEffects[k].appliesTo = id

----------------------------------------------------------------------------
(* calculateScoresAndEndRound, steps 0-4: scores, winners, ties *)

restoValue(gs, id) ==
    LET p == gs.players[id]
        base == IF p.resto = Null THEN 0 ELSE p.resto.value
        maior == IF HasFieldEffect(gs, "Resto Maior", id) THEN RESTO_MAIOR_VALUE ELSE base
    IN  IF HasFieldEffect(gs, "Resto Menor", id) THEN RESTO_MENOR_VALUE ELSE maior

scoreModifier_Single(gs, id) == 1

scoreModifier(gs, id) == IF HasFieldEffect(gs, "Super Exposto", id) THEN 2 ELSE 1

scoreMais(p, score, rv) == IF p.effects.score = "Mais" THEN score + rv ELSE score

scoreMenos(p, score, rv, modifier) ==
    IF p.effects.score = "Menos" THEN score - (rv * modifier) ELSE score

scoreNecroX(p, score) ==
    IF p.effects.score = "NECRO X" THEN score + NECRO_X_BONUS ELSE score

scoreNecroXInvertido(p, score) ==
    IF p.effects.score = "NECRO X Invertido" THEN score - NECRO_X_BONUS ELSE score

computeScore(gs, id) ==
    scoreNecroXInvertido(gs.players[id],
        scoreNecroX(gs.players[id],
            scoreMenos(gs.players[id],
                scoreMais(gs.players[id], SumValues(gs.players[id].playedCards.value),
                          restoValue(gs, id)),
                restoValue(gs, id), scoreModifier(gs, id))))

FinalScores(gs) ==
    [id \in {x \in 1..NP(gs) : ~gs.players[x].isEliminated} |-> computeScore(gs, id)]

StoreLiveScores_All(gs) ==
    [gs EXCEPT !.players =
        [id \in 1..NP(gs) |-> [gs.players[id] EXCEPT !.liveScore = computeScore(gs, id)]]]

StoreLiveScores(gs) ==
    [gs EXCEPT !.players =
        [id \in 1..NP(gs) |->
            IF gs.players[id].isEliminated THEN gs.players[id]
            ELSE [gs.players[id] EXCEPT !.liveScore = computeScore(gs, id)]]]

RECURSIVE WinnersScan_FromZero(_, _, _, _, _, _)
WinnersScan_FromZero(gs, scores, k, has, highest, winners) ==
    IF k > NP(gs) THEN winners
    ELSE LET id == gs.playerIdsInGame[k] IN
         IF gs.players[id].isEliminated
         THEN WinnersScan_FromZero(gs, scores, k + 1, has, highest, winners)
         ELSE IF scores[id] > highest
              THEN WinnersScan_FromZero(gs, scores, k + 1, TRUE, scores[id], <<id>>)
              ELSE IF scores[id] = highest /\ has
                   THEN WinnersScan_FromZero(gs, scores, k + 1, has, highest,
                                             Append(winners, id))
                   ELSE WinnersScan_FromZero(gs, scores, k + 1, has, highest, winners)

(* The scan of step 2; has = FALSE stands for highestScore = -Infinity *)
RECURSIVE WinnersScan(_, _, _, _, _, _)
WinnersScan(gs, scores, k, has, highest, winners) ==
    IF k > NP(gs) THEN winners
    ELSE LET id == gs.playerIdsInGame[k] IN
         IF gs.players[id].isEliminated
         THEN WinnersScan(gs, scores, k + 1, has, highest, winners)
         ELSE IF ~has \/ scores[id] > highest
              THEN WinnersScan(gs, scores, k + 1, TRUE, scores[id], <<id>>)
              ELSE IF scores[id] = highest
                   THEN WinnersScan(gs, scores, k + 1, has, highest, Append(winners, id))
                   ELSE WinnersScan(gs, scores, k + 1, has, highest, winners)

DetermineWinners(gs) ==
    IF Len(ActivePlayers(gs)) > 0
    THEN WinnersScan(gs, FinalScores(gs), 1, FALSE, 0, <<>>)
    ELSE <<>>

TeamAIds(gs) == IF gs.currentStoryBattle = "necroverso_final" THEN FINAL_TEAM_PLAYER ELSE TEAM_A

TeamBIds(gs) == IF gs.currentStoryBattle = "necroverso_final" THEN FINAL_TEAM_NECRO ELSE TEAM_B

HandleTie_Void(gs, winners) == IF Len(winners) > 1 THEN <<>> ELSE winners

HandleTie(gs, winners) ==
    IF Len(winners) > 1
    THEN IF gs.gameMode = "duo"
         THEN LET firstWinnerTeam == IF winners[1] \in TeamAIds(gs) THEN "A" ELSE "B"
                  allWinnersOnSameTeam ==
                      \A k \in 1..Len(winners) :
                          \/ firstWinnerTeam = "A" /\ winners[k] \in TeamAIds(gs)
                          \/ firstWinnerTeam = "B" /\ winners[k] \in TeamBIds(gs)
              IN  IF ~allWinnersOnSameTeam THEN <<>> ELSE winners
         ELSE <<>>
    ELSE winners

calculateScoresAndEndRound(w) ==
    LET gs0 == [w.gs EXCEPT !.player1CardsObscured = FALSE]
        gs1 == StoreLiveScores(gs0)
        winners == HandleTie(gs0, DetermineWinners(gs0))
    IN  Suspend([w EXCEPT !.gs = gs1,
                          !.obs.scored = <<[scores |-> FinalScores(gs0),
                                            winners |-> DetermineWinners(gs0),
                                            final |-> winners]>>],
                [Frame("summary") EXCEPT !.winners = winners])

endRound(w) ==
    IF w.gs.gamePhase # "playing" THEN w
    ELSE calculateScoresAndEndRound(
             [w EXCEPT !.gs.gamePhase = "resolution", !.obs.roundEnded = TRUE])

----------------------------------------------------------------------------
(* executeAiTurn, up to its first timer *)

executeAiTurn(w, id) ==
    Suspend([w EXCEPT !.gs.gamePhase = "paused"], [Frame("ai_think") EXCEPT !.p = id])

----------------------------------------------------------------------------
(* advanceToNextPlayer *)

(* The do-while scan: the player found (0 when the safeguard trips) and the number
   of players examined *)
RECURSIVE ScanBounded(_, _, _, _)
ScanBounded(gs, nextIndex, attempts, bound) ==
    LET n == (nextIndex + 1) % NP(gs) IN
    IF attempts + 1 > bound THEN [id |-> 0, steps |-> attempts]
    ELSE IF gs.players[gs.playerIdsInGame[n + 1]].isEliminated
         THEN ScanBounded(gs, n, attempts + 1, bound)
         ELSE [id |-> gs.playerIdsInGame[n + 1], steps |-> attempts + 1]

NextActiveScan_ThreeLaps(gs, nextIndex, attempts) ==
    ScanBounded(gs, nextIndex, attempts, NP(gs) * 3)

NextActiveScan(gs, nextIndex, attempts) ==
    ScanBounded(gs, nextIndex, attempts, NP(gs) * 2)

NextActive_NoSkip(gs, nextIndex, attempts) ==
    gs.playerIdsInGame[((nextIndex + 1) % NP(gs)) + 1]

NextActive(gs, nextIndex, attempts) == NextActiveScan(gs, nextIndex, attempts).id

EndThreshold_OneLap(n) == n

EndThreshold(n) == n * 2

RoundIsOver(gs) ==
    LET n == Len(ActivePlayers(gs)) IN
    n > 0 /\ gs.consecutivePasses >= EndThreshold(n)

StartTurn(w, id) ==
    IF w.gs.players[id].isHuman
    THEN Suspend(w, [Frame("indicator") EXCEPT !.p = id])
    ELSE Detach(executeAiTurn(w, id))

(* The Star Power cooldown of player 1 runs down as their turn comes *)
DecreaseCooldown(gs, next) ==
    IF next = 1 /\ gs.isXaelChallenge /\ gs.players[next].xaelStarPowerCooldown > 0
    THEN [gs EXCEPT !.players[next].xaelStarPowerCooldown = @ - 1]
    ELSE gs

(* The turn passes to next *)
TurnTo(w, next) ==
    StartTurn([w EXCEPT !.gs = DecreaseCooldown(
                                   [w.gs EXCEPT !.currentPlayer = next,
                                                !.players[next].playedValueCardThisTurn = FALSE],
                                   next),
                        !.obs.adv = <<[from |-> w.gs.currentPlayer,
                                       passes |-> w.gs.consecutivePasses,
                                       players |-> w.gs.players]>>],
              next)

(* The last-call notice is written to the log: calls.run counts the notices since
   consecutivePasses was last reset and calls.n, in the matches that start at the
   end of a round, those since the round started, both as 0, 1 or more *)
NoteCall(w) ==
    [w EXCEPT !.obs.lastCall = @ + 1,
              !.hist.calls = [counted |-> @.counted,
                              n |-> IF @.counted THEN Min(@.n + 1, 2) ELSE 0,
                              run |-> Min(@.run + 1, 2)]]

LastCall_FromThere(w) ==
    LET n == Len(ActivePlayers(w.gs)) IN
    IF n > 0 /\ w.gs.consecutivePasses >= n THEN NoteCall(w) ELSE w

LastCall(w) ==
    LET n == Len(ActivePlayers(w.gs)) IN
    IF n > 0 /\ w.gs.consecutivePasses = n THEN NoteCall(w) ELSE w

AdvanceGuard_Always(gs) == TRUE

AdvanceGuard(gs) == gs.gamePhase = "playing"

advanceToNextPlayer_Unguarded(w) ==
    LET next == NextActive(w.gs, IndexOf(w.gs.playerIdsInGame, w.gs.currentPlayer), 0) IN
    IF RoundIsOver(w.gs) THEN endRound(w)
    ELSE IF next = 0 THEN endRound(LastCall(w))
    ELSE TurnTo(LastCall(w), next)

advanceToNextPlayer(w) ==
    LET next == NextActive(w.gs, IndexOf(w.gs.playerIdsInGame, w.gs.currentPlayer), 0) IN
    IF ~AdvanceGuard(w.gs) THEN [w EXCEPT !.obs.advNoop = TRUE]
    ELSE IF RoundIsOver(w.gs) THEN endRound(w)
    ELSE IF next = 0 THEN endRound(LastCall(w))
    ELSE TurnTo(LastCall(w), next)

----------------------------------------------------------------------------
(* checkGameEnd: w.ret is the value returned *)

Dispatch(w, battle, won) ==
    [w EXCEPT !.ev = Append(w.ev, [battle |-> battle, won |-> won])]

EndStory(w, battle, won) ==
    [Dispatch(w, battle, won) EXCEPT !.gs.gamePhase = "game_over",
                                     !.ret = TRUE, !.obs.cge = Append(w.obs.cge, TRUE)]

PlayerTeamEliminated_Any(gs) ==
    \E id \in FINAL_TEAM_PLAYER : id \in 1..NP(gs) /\ gs.players[id].isEliminated

PlayerTeamEliminated(gs) ==
    \A id \in FINAL_TEAM_PLAYER : id \in 1..NP(gs) /\ gs.players[id].isEliminated

----------------------------------------------------------------------------
(* Achievements: w.ach is the unlocked set, the notifications shown, in order, and
   the set last written to the local storage *)

MaxOthers == 2

OtherAchievements == <<"achievement_a", "achievement_b", "achievement_c">>

(* config.ACHIEVEMENTS: the ids named by the callers, MaxOthers more, and the one
   that stands for all of them *)
ACHIEVEMENTS ==
    {"first_win", "speed_run", "all_achievements"}
    \cup {OtherAchievements[k] : k \in 1..MaxOthers}

NoAchievements == [unlocked |-> {}, notified |-> <<>>, saved |-> {}]

checkAllAchievementsUnlocked_Catalog(ach) ==
    Cardinality(ach.unlocked) >= Cardinality(ACHIEVEMENTS)

checkAllAchievementsUnlocked(ach) ==
    Cardinality(ach.unlocked) >= Cardinality(ACHIEVEMENTS) - 1

saveAchievements(w) == [w EXCEPT !.ach.saved = w.ach.unlocked]

Unlock(w, id) ==
    [w EXCEPT !.ach.unlocked = @ \cup {id}, !.ach.notified = Append(@, id)]

(* The recursive call of grantAchievement, for all_achievements *)
GrantAll(w) ==
    IF "all_achievements" \in w.ach.unlocked THEN w
    ELSE saveAchievements(Unlock(w, "all_achievements"))

GrantNew(w, id) ==
    saveAchievements(IF id # "all_achievements" /\ checkAllAchievementsUnlocked(w.ach)
                     THEN GrantAll(w)
                     ELSE w)

grantAchievement(w, id) ==
    IF id = "speed_run" /\ w.gs.currentStoryBattle = "tutorial_necroverso" THEN w
    ELSE IF id \in w.ach.unlocked THEN w
    ELSE GrantNew(Unlock(w, id), id)

GameWinners_Beyond(gs) ==
    SelectSeq(gs.playerIdsInGame,
              LAMBDA id : ~gs.players[id].isEliminated
                          /\ gs.players[id].position > WINNING_POSITION)

GameWinners(gs) ==
    SelectSeq(gs.playerIdsInGame,
              LAMBDA id : ~gs.players[id].isEliminated
                          /\ gs.players[id].position >= WINNING_POSITION)

ActualWinners_TieToPlayer1(gs) ==
    LET gw == GameWinners(gs)
        player1Won == 1 \in SeqToSet(gw)
        xaelWon == 2 \in SeqToSet(gw)
    IN  IF gs.isXaelChallenge
        THEN IF player1Won /\ xaelWon
             THEN (IF gs.players[1].stars >= gs.players[2].stars THEN <<1>> ELSE <<2>>)
             ELSE IF player1Won THEN <<1>>
             ELSE IF xaelWon THEN <<2>>
             ELSE <<>>
        ELSE gw

ActualWinners(gs) ==
    LET gw == GameWinners(gs)
        player1Won == 1 \in SeqToSet(gw)
        xaelWon == 2 \in SeqToSet(gw)
    IN  IF gs.isXaelChallenge
        THEN IF player1Won /\ xaelWon
             THEN (IF gs.players[1].stars > gs.players[2].stars THEN <<1>> ELSE <<2>>)
             ELSE IF player1Won THEN <<1>>
             ELSE IF xaelWon THEN <<2>>
             ELSE <<>>
        ELSE gw

checkGameEnd_EmptyWins(w) ==
    LET gs == w.gs
        active == ActivePlayers(gs)
        aw == ActualWinners(gs)
    IN  IF gs.currentStoryBattle = "necroverso_final" /\ gs.necroversoHearts <= 0
        THEN EndStory(w, "necroverso_final", TRUE)
        ELSE IF gs.currentStoryBattle = "necroverso_final" /\ PlayerTeamEliminated(gs)
        THEN EndStory(w, "necroverso_final", FALSE)
        ELSE IF gs.isKingNecroBattle /\ Len(active) <= 1
        THEN EndStory(w, gs.currentStoryBattle, \A k \in 1..Len(active) : active[k] = 1)
        ELSE IF Len(GameWinners(gs)) > 0 /\ Len(aw) > 0
        THEN IF gs.isStoryMode
             THEN EndStory(w, gs.currentStoryBattle,
                           IF gs.gameMode = "duo"
                           THEN \E k \in 1..Len(aw) : aw[k] \in TeamAIds(gs)
                           ELSE 1 \in SeqToSet(aw))
             ELSE grantAchievement(
                      [w EXCEPT !.gs.gamePhase = "game_over", !.shown = w.shown + 1,
                                !.ret = TRUE, !.obs.cge = Append(w.obs.cge, TRUE)],
                      "first_win")
        ELSE [w EXCEPT !.ret = FALSE, !.obs.cge = Append(w.obs.cge, FALSE)]

checkGameEnd(w) ==
    LET gs == w.gs
        active == ActivePlayers(gs)
        aw == ActualWinners(gs)
    IN  IF gs.currentStoryBattle = "necroverso_final" /\ gs.necroversoHearts <= 0
        THEN EndStory(w, "necroverso_final", TRUE)
        ELSE IF gs.currentStoryBattle = "necroverso_final" /\ PlayerTeamEliminated(gs)
        THEN EndStory(w, "necroverso_final", FALSE)
        ELSE IF gs.isKingNecroBattle /\ Len(active) <= 1
        THEN EndStory(w, gs.currentStoryBattle, Len(active) = 1 /\ active[1] = 1)
        ELSE IF Len(GameWinners(gs)) > 0 /\ Len(aw) > 0
        THEN IF gs.isStoryMode
             THEN EndStory(w, gs.currentStoryBattle,
                           IF gs.gameMode = "duo"
                           THEN \E k \in 1..Len(aw) : aw[k] \in TeamAIds(gs)
                           ELSE 1 \in SeqToSet(aw))
             ELSE grantAchievement(
                      [w EXCEPT !.gs.gamePhase = "game_over", !.shown = w.shown + 1,
                                !.ret = TRUE, !.obs.cge = Append(w.obs.cge, TRUE)],
                      "first_win")
        ELSE [w EXCEPT !.ret = FALSE, !.obs.cge = Append(w.obs.cge, FALSE)]

----------------------------------------------------------------------------
(* dealCard: w.ret is the card returned, Null when the deck is exhausted *)

dealCard(w, kind) ==
    IF w.gs.decks[kind] = <<>> THEN [w EXCEPT !.ret = Null]
    ELSE [w EXCEPT !.ret = Head(w.gs.decks[kind]),
                   !.gs.decks[kind] = Tail(w.gs.decks[kind])]

----------------------------------------------------------------------------
(* triggerFieldEffects *)

SpaceAt(gs, path, pos) == gs.boardPaths[path][pos]

MarkUsed_Never(w, path, pos) == w

MarkUsed(w, path, pos) == [w EXCEPT !.gs.boardPaths[path][pos].isUsed = TRUE]

(* Index in hand (1-based) of the card sorted[0] / sorted[length - 1] of a stable
   ascending sort of the value cards of the hand *)
LowestValueIndex(hand) ==
    CHOOSE k \in 1..Len(hand) :
        /\ hand[k].type = "value"
        /\ \A j \in 1..Len(hand) : hand[j].type = "value" =>
               \/ hand[k].value < hand[j].value
               \/ hand[k].value = hand[j].value /\ k <= j

HighestValueIndex(hand) ==
    CHOOSE k \in 1..Len(hand) :
        /\ hand[k].type = "value"
        /\ \A j \in 1..Len(hand) : hand[j].type = "value" =>
               \/ hand[k].value > hand[j].value
               \/ hand[k].value = hand[j].value /\ k >= j

(* findIndex(c => c.id === card.id) *)
FindById(hand, cid) ==
    IF \E k \in 1..Len(hand) : hand[k].id = cid
    THEN CHOOSE k \in 1..Len(hand) : hand[k].id = cid /\ \A j \in 1..(k - 1) : hand[j].id # cid
    ELSE 0

TakeDealt_Always(w, id) ==
    [w EXCEPT !.gs.players[id].hand = Append(w.gs.players[id].hand, w.ret)]

(* The drawn card, when there is one, goes to the hand *)
TakeDealt(w, id) ==
    IF w.ret # Null
    THEN [w EXCEPT !.gs.players[id].hand = Append(w.gs.players[id].hand, w.ret)]
    ELSE [w EXCEPT !.obs.redrawFail = Append(@, [id |-> id, hand |-> w.gs.players[id].hand])]

DiscardFromHand(w, id, k) ==
    [w EXCEPT !.gs.players[id].hand = RemoveAt(w.gs.players[id].hand, k),
              !.gs.discardPiles.value =
                  Append(w.gs.discardPiles.value, w.gs.players[id].hand[k])]

DiscardAndRedraw(w, id, name) ==
    LET hand == w.gs.players[id].hand IN
    IF CountType(hand, "value") = 0 THEN w
    ELSE TakeDealt(
             dealCard(DiscardFromHand(w, id,
                          FindById(hand, hand[IF name = "Carta Menor"
                                              THEN LowestValueIndex(hand)
                                              ELSE HighestValueIndex(hand)].id)),
                      "value"),
             id)

(* The partner discards effect cards from the end until one is left *)
RECURSIVE PartnerDiscard(_, _, _)
PartnerDiscard(w, pid, partnerEffectCards) ==
    IF Len(partnerEffectCards) <= 1 THEN w
    ELSE LET card == partnerEffectCards[Len(partnerEffectCards)]
             rest == SubSeq(partnerEffectCards, 1, Len(partnerEffectCards) - 1)
             k == FindById(w.gs.players[pid].hand, card.id)
         IN  IF k > 0
             THEN PartnerDiscard(
                      [w EXCEPT !.gs.players[pid].hand = RemoveAt(w.gs.players[pid].hand, k),
                                !.gs.discardPiles.effect = Append(w.gs.discardPiles.effect, card)],
                      pid, rest)
             ELSE PartnerDiscard(w, pid, rest)

TotalRevesusNada(w, id, rnd) ==
    LET hand == w.gs.players[id].hand
        effectCards == SelectSeq(hand, LAMBDA c : c.type = "effect")
    IN  IF w.gs.gameMode = "duo"
        THEN LET w1 == IF Len(effectCards) > 0
                       THEN LET card == effectCards[(rnd % Len(effectCards)) + 1]
                                k == FindById(hand, card.id)
                            IN  [w EXCEPT !.gs.players[id].hand = RemoveAt(hand, k),
                                          !.gs.discardPiles.effect =
                                              Append(w.gs.discardPiles.effect, card)]
                       ELSE w
                 teamIds == IF id \in TEAM_A THEN TEAM_A ELSE TEAM_B
                 partners == {x \in teamIds : x # id}
                 partnerId == IF partners = {} THEN 0 ELSE CHOOSE x \in partners : TRUE
             IN  IF partnerId \in 1..NP(w.gs)
                 THEN PartnerDiscard(w1, partnerId,
                          SelectSeq(w1.gs.players[partnerId].hand, LAMBDA c : c.type = "effect"))
                 ELSE w1
        ELSE [w EXCEPT !.gs.players[id].hand = SelectSeq(hand, LAMBDA c : c.type # "effect"),
                       !.gs.discardPiles.effect = w.gs.discardPiles.effect \o effectCards]

triggerXaelChallengePopup(w) ==
    IF w.gs.isStoryMode /\ ~w.gs.xaelChallengeOffered /\ ~w.gs.isInversusMode
    THEN [w EXCEPT !.gs.xaelChallengeOffered = TRUE]
    ELSE w

(* After the field-effect modal is acknowledged: record the effect, act at once *)
NamedEffect(w, id, path, pos, rnd) ==
    LET space == SpaceAt(w.gs, path, pos)
        isPositive == space.color = "blue"
        w1 == [NoteEffect(w, space.effectName, id) EXCEPT !.gs.activeFieldEffects =
                  Append(w.gs.activeFieldEffects,
                         [name |-> space.effectName,
                          type |-> IF isPositive THEN "positive" ELSE "negative",
                          appliesTo |-> id])]
        w2 == CASE space.effectName = "Reversus Total" ->
                       triggerXaelChallengePopup([w1 EXCEPT !.gs.reversusTotalActive = TRUE])
                [] space.effectName = "Jogo Aberto" ->
                       IF isPositive
                       THEN [w1 EXCEPT !.gs.revealedHands =
                               SelectSeq(w1.gs.playerIdsInGame,
                                   LAMBDA x : x # id /\ ~w1.gs.players[x].isEliminated)]
                       ELSE [w1 EXCEPT !.gs.revealedHands = Append(w1.gs.revealedHands, id)]
                [] space.effectName \in {"Carta Menor", "Carta Maior"} ->
                       DiscardAndRedraw(w1, id, space.effectName)
                [] space.effectName = "Total Revesus Nada!" -> TotalRevesusNada(w1, id, rnd)
                [] OTHER -> w1
    IN  MarkUsed(Fire(Visit(w2, id, path, pos, "named"), path, pos), path, pos)

SpaceIsUsed_Never(space) == FALSE

SpaceIsUsed(space) == space.isUsed

BlackSpaceHitsHearts_Never(gs, id) == FALSE

BlackSpaceHitsHearts(gs, id) ==
    gs.currentStoryBattle = "necroverso_final" /\ gs.players[id].aiType = "necroverso_final"

VersatrixStep(player) ==
    IF player.aiType = "versatrix"
    THEN Min(WINNING_POSITION, player.position + 1)
    ELSE Max(1, player.position - 1)

(* One pass of the loop body for the k-th player: the world after it and whether
   the loop goes on ("continue"), the function returns ("return") or waits *)
Go(w) == [w |-> w, st |-> "continue"]

Stop(w) == [w |-> w, st |-> "return"]

Wait(w) == [w |-> w, st |-> "wait"]

(* await advanceToNextPlayer() inside the loop *)
AwaitAdvance(w, k, orig) ==
    IF w.cur # <<>>
    THEN Wait(AwaitUnder(w, [Frame("tfe_adv") EXCEPT !.i = k, !.orig = orig]))
    ELSE Go(w)

Eliminate(w, id, k, orig) ==
    IF w.gs.currentStoryBattle = "necroverso_final" /\ PlayerTeamEliminated(w.gs)
    THEN Stop(Dispatch(w, "necroverso_final", FALSE))
    ELSE IF Len(ActivePlayers(w.gs)) <= 1 /\ w.gs.isStoryMode
    THEN Stop(Dispatch([w EXCEPT !.gs.gamePhase = "game_over", !.obs.over = TRUE],
                       w.gs.currentStoryBattle, 1 \in SeqToSet(ActivePlayers(w.gs))))
    ELSE IF id = w.gs.currentPlayer
    THEN AwaitAdvance(advanceToNextPlayer(w), k, orig)
    ELSE Go(w)

LoseHeart_NoStop(w, id) ==
    Go([w EXCEPT !.gs.necroversoHearts = w.gs.necroversoHearts - 1,
                 !.gs.players[id].position = 1])

LoseHeart(w, id) ==
    IF w.gs.necroversoHearts - 1 <= 0
    THEN Stop(Dispatch([w EXCEPT !.gs.necroversoHearts = w.gs.necroversoHearts - 1,
                                 !.gs.players[id].position = 1],
                       "necroverso_final", TRUE))
    ELSE Go([w EXCEPT !.gs.necroversoHearts = w.gs.necroversoHearts - 1,
                      !.gs.players[id].position = 1])

BlackSpace(w, k, orig) ==
    LET id == w.gs.playerIdsInGame[k]
        w1 == Fire(MarkUsed(w, w.gs.players[id].pathId, w.gs.players[id].position),
                   w.gs.players[id].pathId, w.gs.players[id].position)
    IN  IF BlackSpaceHitsHearts(w.gs, id)
        THEN LoseHeart(Visit(w1, id, w.gs.players[id].pathId, w.gs.players[id].position,
                             "heart"), id)
        ELSE Eliminate([Visit(w1, id, w.gs.players[id].pathId, w.gs.players[id].position,
                              "eliminate")
                           EXCEPT !.gs.players[id].isEliminated = TRUE,
                                  !.obs.elim = Append(@, [id |-> id,
                                                          at |-> w.gs.players[id]])],
                       id, k, orig)

FieldStep(w, k, orig) ==
    LET gs == w.gs
        id == gs.playerIdsInGame[k]
        player == gs.players[id]
        path == player.pathId
        pos == player.position
        space == SpaceAt(gs, path, pos)
    IN
    IF player.isEliminated \/ player.pathId = -1 THEN Go(w)
    ELSE IF \/ player.pathId \notin DOMAIN gs.boardPaths
            \/ player.position < 1
            \/ player.position > Len(gs.boardPaths[player.pathId])
    THEN Go(w)
    ELSE IF SpaceIsUsed(space) THEN Go([w EXCEPT !.obs.skippedUsed = TRUE])
    ELSE CASE space.color = "black" -> BlackSpace(w, k, orig)
           [] space.color = "yellow" ->
              Wait(Suspend([Fire(Visit(w, id, path, pos, "versatrix"), path, pos) EXCEPT
                                !.gs.players[id].position = VersatrixStep(player)],
                           [Frame("tfe_yellow") EXCEPT !.i = k, !.orig = orig,
                                                       !.path = path, !.pos = pos]))
           [] space.color = "star" ->
              Go([MarkUsed(Fire(Visit(w, id, path, pos, "star"), path, pos), path, pos) EXCEPT
                      !.gs.players[id].stars = player.stars + 1])
           [] OTHER ->
              IF space.effectName # "null"
              THEN Wait(Suspend(w, [Frame("tfe_named") EXCEPT !.i = k, !.orig = orig,
                                                              !.path = path, !.pos = pos]))
              ELSE Go(w)

RECURSIVE TFELoop(_, _, _)
(* r is the outcome of the loop body for the k-th player *)
TFENext(r, k, orig) ==
    IF r.st = "continue" THEN TFELoop(r.w, k + 1, orig)
    ELSE IF r.st = "return" THEN EndPass(r.w, "stopped")
    ELSE r.w

TFELoop(w, k, orig) ==
    IF k > NP(w.gs) THEN EndPass([w EXCEPT !.gs.currentPlayer = orig], "done")
    ELSE TFENext(FieldStep(w, k, orig), k, orig)

triggerFieldEffects(w) == TFELoop(w, 1, w.gs.currentPlayer)

----------------------------------------------------------------------------
(* startNewRound *)

ResetPlayer_All(gs, id) ==
    LET player == gs.players[id] IN
    [gs EXCEPT
        !.discardPiles.value = gs.discardPiles.value \o player.playedCards.value,
        !.discardPiles.effect = gs.discardPiles.effect \o player.playedCards.effect,
        !.players[id].playedCards = [value |-> <<>>, effect |-> <<>>],
        !.players[id].resto =
            IF player.nextResto # Null THEN player.nextResto ELSE player.resto,
        !.players[id].nextResto = Null,
        !.players[id].effects = [score |-> "null", movement |-> "null"],
        !.players[id].playedValueCardThisTurn = FALSE,
        !.players[id].targetPathForPula = -1]

ResetPlayer(gs, id) ==
    LET player == gs.players[id] IN
    IF player.isEliminated THEN gs
    ELSE [gs EXCEPT
            !.discardPiles.value = gs.discardPiles.value \o player.playedCards.value,
            !.discardPiles.effect = gs.discardPiles.effect \o player.playedCards.effect,
            !.players[id].playedCards = [value |-> <<>>, effect |-> <<>>],
            !.players[id].resto =
                IF player.nextResto # Null THEN player.nextResto ELSE player.resto,
            !.players[id].nextResto = Null,
            !.players[id].effects = [score |-> "null", movement |-> "null"],
            !.players[id].playedValueCardThisTurn = FALSE,
            !.players[id].targetPathForPula = -1]

RECURSIVE ResetPlayers(_, _)
ResetPlayers(gs, k) ==
    IF k > NP(gs) THEN gs
    ELSE ResetPlayers(ResetPlayer(gs, gs.playerIdsInGame[k]), k + 1)

ResetRound_KeepEffects(gs) ==
    [gs EXCEPT !.reversusTotalActive = FALSE,
               !.consecutivePasses = 0,
               !.revealedHands = <<>>]

ResetRound(gs) ==
    [gs EXCEPT !.reversusTotalActive = FALSE,
               !.consecutivePasses = 0,
               !.activeFieldEffects = <<>>,
               !.revealedHands = <<>>]

HandLimit(kind) ==
    IF kind = "value" THEN MAX_VALUE_CARDS_IN_HAND ELSE MAX_EFFECT_CARDS_IN_HAND

RECURSIVE FillHand(_, _, _)
FillHand(w, id, kind) ==
    IF CountType(w.gs.players[id].hand, kind) < HandLimit(kind)
    THEN LET w1 == dealCard(w, kind) IN
         IF w1.ret # Null
         THEN FillHand([w1 EXCEPT !.gs.players[id].hand =
                                      Append(w1.gs.players[id].hand, w1.ret)],
                       id, kind)
         ELSE [w1 EXCEPT !.obs.nulls = Append(@, <<id, kind>>)]
    ELSE w

RECURSIVE Replenish(_, _)
Replenish(w, k) ==
    IF k > NP(w.gs) THEN w
    ELSE LET id == w.gs.playerIdsInGame[k] IN
         IF w.gs.players[id].isEliminated THEN Replenish(w, k + 1)
         ELSE Replenish(FillHand(FillHand(w, id, "value"), id, "effect"), k + 1)

(* The rotating board of the King battle may drop one player into a hole *)
rotateAndApplyKingNecroversoBoardEffects(w, victim) ==
    IF victim \in 1..NP(w.gs) /\ ~w.gs.players[victim].isEliminated
    THEN [w EXCEPT !.gs.players[victim].isEliminated = TRUE]
    ELSE w

BeginRound(w) ==
    LET cp == w.gs.currentPlayer
        w1 == [w EXCEPT !.gs.gamePhase = "playing",
                        !.gs.players[cp].playedValueCardThisTurn = FALSE,
                        !.obs.began = TRUE]
    IN  StartTurn(w1, cp)

(* The end of startNewRound: the first turn of the round unless the game-end check
   that follows the board or field effects has ended the match *)
BeginUnlessOver_Always(w) == BeginRound(w)

BeginUnlessOver(w) == IF w.ret = TRUE THEN w ELSE BeginRound(w)

FinishRoundStart(w, effectsRan) ==
    BeginUnlessOver(IF effectsRan THEN checkGameEnd(w) ELSE [w EXCEPT !.ret = FALSE])

AfterRoundEffects(w, effectsRan) ==
    IF w.cur # <<>> THEN AwaitUnder(w, Frame("snr_tfe"))
    ELSE FinishRoundStart(w, effectsRan)

RoundEffects(w, isFirstRound, in) ==
    AfterRoundEffects(IF w.gs.isKingNecroBattle
                      THEN rotateAndApplyKingNecroversoBoardEffects(w, in.victim)
                      ELSE IF ~isFirstRound THEN triggerFieldEffects(w)
                      ELSE w,
                      w.gs.isKingNecroBattle \/ ~isFirstRound)

PrepareRound(gs, isFirstRound) ==
    ResetRound(ResetPlayers(IF ~isFirstRound THEN [gs EXCEPT !.turn = gs.turn + 1] ELSE gs, 1))

startNewRound(w, isFirstRound, in) ==
    RoundEffects(Replenish(NoteReset([NoCalls(NoPasses(w)) EXCEPT
                                          !.gs = PrepareRound(w.gs, isFirstRound)],
                                      w.gs, isFirstRound), 1),
                 isFirstRound, in)

----------------------------------------------------------------------------
(* calculateScoresAndEndRound, steps 5-9: movement, abilities, game end *)

Sobe(pos) == Min(WINNING_POSITION, pos + 1)

Desce_Unclamped(pos, modifier) == pos - (1 * modifier)

Desce(pos, modifier) == Max(1, pos - (1 * modifier))

Castigo(pos) == Max(1, pos - CASTIGO_STEPS)

Impulso(pos) == Min(WINNING_POSITION, pos + 1)

Advance(pos, amount) == Min(WINNING_POSITION, pos + amount)

MovePlayerA_WinnersToo(gs, id, winners) ==
    LET p == gs.players[id]
        movementModifier == IF HasFieldEffect(gs, "Super Exposto", id) THEN 2 ELSE 1
        effect == p.effects.movement
        pos1 == IF effect = "Sobe" THEN Sobe(p.position) ELSE p.position
        pos2 == IF effect = "Desce" THEN Desce(pos1, movementModifier) ELSE pos1
        path1 == IF effect = "Pula" /\ p.targetPathForPula # -1
                 THEN p.targetPathForPula ELSE p.pathId
        pos3 == IF HasFieldEffect(gs, "Castigo", id) THEN Castigo(pos2) ELSE pos2
        pos4 == IF HasFieldEffect(gs, "Impulso", id) THEN Impulso(pos3) ELSE pos3
    IN  IF p.isEliminated THEN gs
        ELSE [gs EXCEPT !.players[id].position = pos4, !.players[id].pathId = path1]

MovePlayerA(gs, id, winners) ==
    LET p == gs.players[id]
        movementModifier == IF HasFieldEffect(gs, "Super Exposto", id) THEN 2 ELSE 1
        effect == p.effects.movement
        pos1 == IF effect = "Sobe" THEN Sobe(p.position) ELSE p.position
        pos2 == IF effect = "Desce" THEN Desce(pos1, movementModifier) ELSE pos1
        path1 == IF effect = "Pula" /\ p.targetPathForPula # -1
                 THEN p.targetPathForPula ELSE p.pathId
        isLoser == id \notin SeqToSet(winners) /\ Len(winners) > 0
        pos3 == IF isLoser /\ HasFieldEffect(gs, "Castigo", id) THEN Castigo(pos2) ELSE pos2
        pos4 == IF isLoser /\ HasFieldEffect(gs, "Impulso", id) THEN Impulso(pos3) ELSE pos3
    IN  IF p.isEliminated THEN gs
        ELSE [gs EXCEPT !.players[id].position = pos4, !.players[id].pathId = path1]

RECURSIVE MovementA(_, _, _)
MovementA(gs, k, winners) ==
    IF k > NP(gs) THEN gs
    ELSE MovementA(MovePlayerA(gs, gs.playerIdsInGame[k], winners), k + 1, winners)

AdvanceAmount_Unconditional(gs, id) ==
    IF HasFieldEffect(gs, "Desafio", id) THEN DESAFIO_ADVANCE ELSE 1

AdvanceAmount(gs, id) ==
    IF /\ HasFieldEffect(gs, "Desafio", id)
       /\ gs.players[id].effects.score # "Mais"
       /\ gs.players[id].effects.movement # "Sobe"
    THEN DESAFIO_ADVANCE ELSE 1

MoveWinner(gs, id) ==
    IF HasFieldEffect(gs, "Parada", id) THEN gs
    ELSE [gs EXCEPT !.players[id].position =
                        Advance(gs.players[id].position, AdvanceAmount(gs, id))]

RECURSIVE MovementB(_, _, _)
MovementB(gs, k, winners) ==
    IF k > Len(winners) THEN gs
    ELSE MovementB(MoveWinner(gs, winners[k]), k + 1, winners)

checkAndTriggerPawnLandingAbilities(gs, id) ==
    IF ~gs.isStoryMode THEN gs
    ELSE IF /\ gs.currentStoryBattle = "contravox"
            /\ id = 1
            /\ gs.players[id].position \in {3, 6, 9}
            /\ gs.contravoxAbilityUses > 0
    THEN [gs EXCEPT !.player1CardsObscured = TRUE,
                    !.contravoxAbilityUses = gs.contravoxAbilityUses - 1]
    ELSE gs

RECURSIVE LandingPass(_, _)
LandingPass(gs, k) ==
    IF k > NP(gs) THEN gs
    ELSE LET id == gs.playerIdsInGame[k] IN
         IF ~gs.players[id].isEliminated
         THEN LandingPass(checkAndTriggerPawnLandingAbilities(gs, id), k + 1)
         ELSE LandingPass(gs, k + 1)

SeedNextPlayer_Keep(gs, winners) == gs

SeedNextPlayer(gs, winners) ==
    LET winnerTurnOrder == SelectSeq(gs.playerIdsInGame, LAMBDA x : x \in SeqToSet(winners)) IN
    IF Len(winners) > 0 /\ Len(winnerTurnOrder) > 0
    THEN [gs EXCEPT !.currentPlayer = winnerTurnOrder[1]]
    ELSE gs

(* w is the world after the game-end check of step 7 *)
NextRoundUnlessOver(w, winners, in) ==
    IF w.ret = TRUE THEN w
    ELSE startNewRound([w EXCEPT !.gs = SeedNextPlayer(w.gs, winners),
                                 !.obs.seeded = TRUE],
                       FALSE, in)

(* After the round summary modal *)
ResolveRound(w, winners, in) ==
    NextRoundUnlessOver(
        checkGameEnd([w EXCEPT !.gs = LandingPass(MovementB(MovementA(w.gs, 1, winners),
                                                            1, winners), 1),
                               !.obs.resolved = TRUE,
                               !.obs.before = w.gs.players,
                               !.obs.moved =
                                   <<[winners |-> winners,
                                      current |-> w.gs.currentPlayer,
                                      turn |-> w.gs.turn,
                                      effects |-> w.gs.activeFieldEffects,
                                      afterA |-> MovementA(w.gs, 1, winners).players,
                                      afterB |-> MovementB(MovementA(w.gs, 1, winners),
                                                           1, winners).players]>>]),
        winners, in)

----------------------------------------------------------------------------
(* playCard, the action API of human and AI *)

ScoreEffects == {"Mais", "Menos", "NECRO X", "NECRO X Invertido"}

MovementEffects == {"Sobe", "Desce", "Pula"}

SameCategory(a, b) ==
    \/ a \in ScoreEffects /\ b \in ScoreEffects
    \/ a \in MovementEffects /\ b \in MovementEffects

(* The played effect card lies with its target and replaces the card of the
   same category lying there, which goes to the discard pile *)
PlaceEffectCard(gs, target, card) ==
    LET lying == gs.players[target].playedCards.effect
        olds == {k \in 1..Len(lying) : SameCategory(lying[k].name, card.name)}
    IN  IF olds = {}
        THEN [gs EXCEPT !.players[target].playedCards.effect = Append(lying, card)]
        ELSE LET k == CHOOSE x \in olds : \A y \in olds : x <= y IN
             [gs EXCEPT !.players[target].playedCards.effect = [lying EXCEPT ![k] = card],
                        !.discardPiles.effect = Append(gs.discardPiles.effect, lying[k])]

applyEffect(gs, target, name) ==
    IF name \in ScoreEffects THEN [gs EXCEPT !.players[target].effects.score = name]
    ELSE IF name \in MovementEffects THEN [gs EXCEPT !.players[target].effects.movement = name]
    ELSE gs

playCard(w, id, k, target) ==
    LET hand == w.gs.players[id].hand
        card == hand[k]
        gs1 == [w.gs EXCEPT !.players[id].hand = RemoveAt(hand, k),
                            !.consecutivePasses = 0]
    IN  IF card.type = "value"
        THEN [NoPasses(w) EXCEPT !.gs = [gs1 EXCEPT
                 !.players[id].playedCards.value = Append(gs1.players[id].playedCards.value, card),
                 !.players[id].playedValueCardThisTurn = TRUE,
                 !.players[id].nextResto = card]]
        ELSE [NoPasses(w) EXCEPT
                 !.gs = applyEffect(PlaceEffectCard(gs1, target, card), target, card.name)]

----------------------------------------------------------------------------
(* executeAiTurn, after its first timer *)

Opponents(gs, id) ==
    SelectSeq(gs.playerIdsInGame, LAMBDA x : x # id /\ ~gs.players[x].isEliminated)

(* [...opponents].sort((a, b) => b.liveScore - a.liveScore)[0]; 0 when there is none *)
Leader(gs, id) ==
    LET ops == Opponents(gs, id) IN
    IF ops = <<>> THEN 0
    ELSE ops[CHOOSE k \in 1..Len(ops) :
                 \A j \in 1..Len(ops) :
                     \/ gs.players[ops[k]].liveScore > gs.players[ops[j]].liveScore
                     \/ gs.players[ops[k]].liveScore = gs.players[ops[j]].liveScore /\ k <= j]

AvailablePaths(gs) ==
    {q \in DOMAIN gs.boardPaths : \A x \in 1..NP(gs) : gs.players[x].pathId # q}

MaxOtherScore(gs, id) ==
    LET ops == Opponents(gs, id) IN
    CHOOSE m \in {gs.players[ops[k]].liveScore : k \in 1..Len(ops)} :
        \A k \in 1..Len(ops) : gs.players[ops[k]].liveScore <= m

(* Index in hand of the value card the AI plays *)
AiValueCard(gs, id) ==
    LET p == gs.players[id]
        potentialWinCard == p.hand[HighestValueIndex(p.hand)]
        currentScoreWithResto == p.liveScore + (IF p.resto = Null THEN 0 ELSE p.resto.value)
    IN  IF \/ Opponents(gs, id) = <<>>
           \/ currentScoreWithResto + potentialWinCard.value > MaxOtherScore(gs, id)
        THEN HighestValueIndex(p.hand)
        ELSE LowestValueIndex(p.hand)

NoMove == [score |-> -1, target |-> 0]

(* The rating of one effect card: [score, target] *)
RateWith(gs, id, card, leader) ==
    IF card.name \in {"Mais", "Sobe"}
    THEN IF (IF card.name = "Mais" THEN gs.players[id].effects.score
             ELSE gs.players[id].effects.movement) # card.name
         THEN [score |-> 25, target |-> id]
         ELSE NoMove
    ELSE IF card.name \in {"Menos", "Desce"} /\ leader # 0
    THEN IF (IF card.name = "Menos" THEN gs.players[leader].effects.score
             ELSE gs.players[leader].effects.movement) # card.name
         THEN [score |-> 30, target |-> leader]
         ELSE NoMove
    ELSE IF card.name = "Pula" /\ leader # 0 /\ AvailablePaths(gs) # {}
    THEN [score |-> 32, target |-> leader]
    ELSE NoMove

RateMove(gs, id, card) ==
    IF card.type = "effect" THEN RateWith(gs, id, card, Leader(gs, id)) ELSE NoMove

(* bestMove: the first card of the hand with the highest rating *)
BestOf(ratings) ==
    LET cands == {k \in DOMAIN ratings : ratings[k].score > 0} IN
    IF cands = {} THEN [score |-> -1, target |-> 0, k |-> 0]
    ELSE LET k == CHOOSE x \in cands :
                      \A y \in cands :
                          \/ ratings[x].score > ratings[y].score
                          \/ ratings[x].score = ratings[y].score /\ x <= y
         IN  [score |-> ratings[k].score, target |-> ratings[k].target, k |-> k]

BestMove(gs, id) ==
    BestOf([k \in 1..Len(gs.players[id].hand) |-> RateMove(gs, id, gs.players[id].hand[k])])

SetGamePhasePlaying(gs) == [gs EXCEPT !.gamePhase = "playing"]

AiFinally(w) == advanceToNextPlayer([w EXCEPT !.gs = SetGamePhasePlaying(w.gs)])

AiCatch_Silent(w) == AiFinally([w EXCEPT !.obs.aiFailed = TRUE])

AiCatch(w) ==
    AiFinally(NotePass([w EXCEPT !.gs.consecutivePasses = w.gs.consecutivePasses + 1,
                                 !.obs.aiFailed = TRUE],
                       w.gs.currentPlayer))

AiPart3(w, id) == Suspend(w, [Frame("ai_pass") EXCEPT !.p = id])

PlayOrPass(w, id, bm) ==
    IF CountType(w.gs.players[id].hand, "effect") > 0 /\ bm.score > 0
    THEN Suspend(w, [Frame("ai_play") EXCEPT !.p = id, !.i = w.gs.players[id].hand[bm.k].id,
                                              !.orig = bm.target])
    ELSE AiPart3(w, id)

AiPart2(w, id) == PlayOrPass(w, id, BestMove(w.gs, id))

AiPart1(w, id, in) ==
    LET p == w.gs.players[id] IN
    IF CountType(p.hand, "value") > 1 /\ ~p.playedValueCardThisTurn
    THEN IF in.fail THEN AiCatch(w)
         ELSE Suspend(playCard(w, id, AiValueCard(w.gs, id), id),
                      [Frame("ai_effect") EXCEPT !.p = id])
    ELSE AiPart2(w, id)

AiPlayBestMove(w, f, in) ==
    LET id == f.p
        k == FindById(w.gs.players[id].hand, f.i)
        card == w.gs.players[id].hand[k]
        free == AvailablePaths(w.gs)
    IN  IF k = 0 \/ in.fail \/ (card.name = "Pula" /\ free = {}) THEN AiCatch(w)
        ELSE LET w1 == IF card.name = "Pula"
                       THEN [w EXCEPT !.gs.players[f.orig].targetPathForPula =
                                          CHOOSE q \in free : \A r \in free : q <= r]
                       ELSE w
             IN  AiPart3(playCard(w1, id, k, f.orig), id)

AiPassTurn(w) ==
    AiFinally(NotePass([w EXCEPT !.gs.consecutivePasses = w.gs.consecutivePasses + 1],
                       w.gs.currentPlayer))

----------------------------------------------------------------------------
(* The start of a match: initiateGameStartSequence, drawToStart, finalizeGameStart *)

RECURSIVE AssignPaths(_, _)
AssignPaths(gs, k) ==
    IF k > NP(gs) THEN gs
    ELSE LET chosen == {gs.players[gs.playerIdsInGame[j]].pathId : j \in 1..(k - 1)}
             availablePaths == DOMAIN gs.boardPaths \ chosen
         IN  IF availablePaths # {}
             THEN AssignPaths([gs EXCEPT !.players[gs.playerIdsInGame[k]].pathId =
                                   CHOOSE q \in availablePaths : \A r \in availablePaths : q <= r],
                              k + 1)
             ELSE AssignPaths(gs, k + 1)

NoInput == [victim |-> 0, rnd |-> 0, fail |-> FALSE]

initiateGameStartSequence(w) ==
    IF w.gs.isInversusMode \/ w.gs.isFinalBoss \/ w.gs.isXaelChallenge
    THEN startNewRound(IF w.gs.isInversusMode THEN w
                       ELSE [w EXCEPT !.gs = AssignPaths(w.gs, 1)],
                       TRUE, NoInput)
    ELSE Suspend(w, Frame("draw_wait"))

(* The dealing loop: [w, drawn, failed] *)
RECURSIVE DealToStart(_, _, _)
DealToStart(w, k, drawn) ==
    IF k > NP(w.gs) THEN [w |-> w, drawn |-> drawn, dealFailed |-> FALSE]
    ELSE LET w1 == dealCard(w, "value") IN
         IF w1.ret = Null THEN [w |-> w1, drawn |-> drawn, dealFailed |-> TRUE]
         ELSE DealToStart(w1, k + 1, Append(drawn, w1.ret))

drawToStart(w) ==
    LET r == DealToStart(w, 1, <<>>) IN
    IF r.dealFailed THEN [r.w EXCEPT !.obs.dealFailed = TRUE]
    ELSE Suspend(r.w, [Frame("draw_reveal") EXCEPT !.drawn = r.drawn])

(* sortedPlayers: a stable sort of the turn order by drawn value, descending *)
RECURSIVE InsertSorted(_, _, _)
InsertSorted(sorted, id, drawn) ==
    IF sorted = <<>> THEN <<id>>
    ELSE IF drawn[id].value > drawn[Head(sorted)].value THEN <<id>> \o sorted
    ELSE <<Head(sorted)>> \o InsertSorted(Tail(sorted), id, drawn)

RECURSIVE SortedPlayers(_, _, _)
SortedPlayers(ids, k, drawn) ==
    IF k = 0 THEN <<>>
    ELSE InsertSorted(SortedPlayers(ids, k - 1, drawn), ids[k], drawn)

DrawHasWinner_OnTie(sorted, drawn) ==
    Len(sorted) < 2 \/ drawn[sorted[1]].value >= drawn[sorted[2]].value

DrawHasWinner(sorted, drawn) ==
    Len(sorted) < 2 \/ drawn[sorted[1]].value > drawn[sorted[2]].value

decideDraw_SortInPlace(w, drawn) ==
    LET sortedPlayers == SortedPlayers(w.gs.playerIdsInGame, NP(w.gs), drawn) IN
    Suspend([w EXCEPT !.gs.playerIdsInGame = sortedPlayers,
                      !.gs.currentPlayer = sortedPlayers[1],
                      !.gs.initialDrawCards = drawn],
            Frame("draw_done"))

decideDraw(w, drawn) ==
    LET sortedPlayers == SortedPlayers(w.gs.playerIdsInGame, NP(w.gs), drawn) IN
    IF DrawHasWinner(sortedPlayers, drawn)
    THEN Suspend([w EXCEPT !.gs.currentPlayer = sortedPlayers[1],
                           !.gs.initialDrawCards = drawn],
                 Frame("draw_done"))
    ELSE initiateGameStartSequence(
             [w EXCEPT !.gs.discardPiles.value = w.gs.discardPiles.value \o drawn,
                       !.obs.redraw = TRUE])

finalizeGameStart(w) ==
    LET gs1 == IF w.gs.initialDrawCards # <<>>
               THEN [w.gs EXCEPT !.players =
                        [id \in 1..NP(w.gs) |->
                            [w.gs.players[id] EXCEPT !.resto = w.gs.initialDrawCards[id]]]]
               ELSE w.gs
    IN  startNewRound([w EXCEPT !.gs = gs1], TRUE, NoInput)

----------------------------------------------------------------------------
(* Resumption of a suspended call chain *)

(* The callers that wait under a suspended call with work left: triggerFieldEffects
   (at a modal, or at its call of advanceToNextPlayer) and startNewRound *)
ResumeCaller(w, f, in) ==
    IF f.pc = "snr_tfe" THEN FinishRoundStart(w, TRUE)
    ELSE TFELoop(CASE f.pc = "tfe_yellow" -> MarkUsed(w, f.path, f.pos)
                   [] f.pc = "tfe_named" ->
                          NamedEffect(w, w.gs.playerIdsInGame[f.i], f.path, f.pos, in.rnd)
                   [] OTHER -> w,
                 f.i + 1, f.orig)

RECURSIVE RunStack(_, _, _)
RunStack(w, frames, in) ==
    IF frames = <<>> \/ w.cur # <<>> THEN [w EXCEPT !.cur = w.cur \o frames]
    ELSE RunStack(ResumeCaller(w, Head(frames), in), Tail(frames), in)

----------------------------------------------------------------------------
(* The state of a match *)

SoloMode ==
    [isStoryMode |-> FALSE, gameMode |-> "solo", isKingNecroBattle |-> FALSE,
     isFinalBoss |-> FALSE, isXaelChallenge |-> FALSE, isInversusMode |-> FALSE,
     currentStoryBattle |-> "none", aiTypes |-> <<"human", "default">>,
     hearts |-> 0, contravoxAbilityUses |-> 0]

ModeOf(name) ==
    CASE name = "solo" -> SoloMode
      [] name = "duo" ->
            [SoloMode EXCEPT !.gameMode = "duo",
                             !.aiTypes = <<"human", "default", "default", "default">>]
      [] name = "contravox" ->
            [SoloMode EXCEPT !.isStoryMode = TRUE, !.currentStoryBattle = "contravox",
                             !.aiTypes = <<"human", "contravox">>,
                             !.contravoxAbilityUses = 1]
      [] name = "versatrix" ->
            [SoloMode EXCEPT !.isStoryMode = TRUE, !.currentStoryBattle = "versatrix",
                             !.aiTypes = <<"human", "versatrix">>]
      [] name = "final" ->
            [SoloMode EXCEPT !.isStoryMode = TRUE, !.gameMode = "duo", !.isFinalBoss = TRUE,
                             !.currentStoryBattle = "necroverso_final",
                             !.aiTypes = <<"human", "necroverso_final",
                                           "necroverso_final", "versatrix">>,
                             !.hearts = MaxHearts]
      [] name = "king" ->
            [SoloMode EXCEPT !.isStoryMode = TRUE, !.isKingNecroBattle = TRUE,
                             !.currentStoryBattle = "necroverso_king",
                             !.aiTypes = <<"human", "reversum", "necroverso_king">>]
      [] name = "xael" ->
            [SoloMode EXCEPT !.isStoryMode = TRUE, !.isXaelChallenge = TRUE,
                             !.currentStoryBattle = "xael_challenge",
                             !.aiTypes = <<"human", "xael">>]
      [] name = "inversus" ->
            [SoloMode EXCEPT !.isInversusMode = TRUE, !.aiTypes = <<"human", "inversus">>]

Plain == [color |-> "white", effectName |-> "null"]

Kind(color, name) == [color |-> color, effectName |-> name]

MkPlayer(id, m, pos) ==
    [id |-> id, isHuman |-> (id = 1), aiType |-> m.aiTypes[id], isEliminated |-> FALSE,
     position |-> pos,
     pathId |-> IF m.isFinalBoss \/ m.isXaelChallenge THEN -1 ELSE id - 1,
     effects |-> [score |-> "null", movement |-> "null"],
     hand |-> <<>>, playedCards |-> [value |-> <<>>, effect |-> <<>>],
     resto |-> Null, nextResto |-> Null, stars |-> 0, liveScore |-> 0,
     playedValueCardThisTurn |-> FALSE, targetPathForPula |-> -1,
     xaelStarPowerCooldown |-> 0]

(* Every path carries the special space at the positions of SpecialPositions *)
SpecialPositions == {2, WINNING_POSITION - 1}

MkBoard(nPaths, kind) ==
    [q \in 0..(nPaths - 1) |->
        [pos \in 1..WINNING_POSITION |->
            [color |-> IF pos \in SpecialPositions THEN kind.color ELSE Plain.color,
             effectName |-> IF pos \in SpecialPositions THEN kind.effectName
                            ELSE Plain.effectName,
             isUsed |-> FALSE]]]

MkGameState(m, kind, values, names, positions, cp) ==
    LET np == Len(m.aiTypes) IN
    [players |-> [id \in 1..np |-> MkPlayer(id, m, positions[id])],
     playerIdsInGame |-> [k \in 1..np |-> k],
     currentPlayer |-> cp,
     gamePhase |-> "setup",
     consecutivePasses |-> 0,
     turn |-> 1,
     discardPiles |-> [value |-> <<>>, effect |-> <<>>],
     decks |-> [value |-> MkValueDeck(values), effect |-> MkEffectDeck(names)],
     activeFieldEffects |-> <<>>,
     revealedHands |-> <<>>,
     initialDrawCards |-> <<>>,
     isStoryMode |-> m.isStoryMode,
     gameMode |-> m.gameMode,
     isKingNecroBattle |-> m.isKingNecroBattle,
     isFinalBoss |-> m.isFinalBoss,
     isXaelChallenge |-> m.isXaelChallenge,
     isInversusMode |-> m.isInversusMode,
     currentStoryBattle |-> m.currentStoryBattle,
     necroversoHearts |-> m.hearts,
     contravoxAbilityUses |-> m.contravoxAbilityUses,
     player1CardsObscured |-> FALSE,
     reversusTotalActive |-> FALSE,
     xaelChallengeOffered |-> FALSE,
     boardPaths |-> MkBoard(np + 1, kind)]

CardIds(cards) == {cards[k].id : k \in 1..Len(cards)}

(* The cards of the match are those of the two decks it starts with *)
NoHistory(gs) ==
    [cards |-> CardIds(gs.decks.value) \cup CardIds(gs.decks.effect), fired |-> {},
     passes |-> [id \in 1..NP(gs) |-> 0], visits |-> <<>>,
     noted |-> [turn |-> gs.turn, recs |-> Named(gs.activeFieldEffects)],
     calls |-> [counted |-> FALSE, n |-> 0, run |-> 0]]

World ==
    [gs |-> gameState, tasks |-> tasks, cur |-> <<>>, ev |-> storyWinLoss,
     shown |-> gameOverShown, hist |-> history, obs |-> NoObs, ret |-> FALSE,
     ach |-> achievements]

Commit(w) ==
    /\ w.gs.turn <= MaxTurn
    /\ gameState' = w.gs
    /\ tasks' = w.tasks \o (IF w.cur # <<>> THEN <<w.cur>> ELSE <<>>)
    /\ storyWinLoss' = w.ev
    /\ gameOverShown' = w.shown
    /\ history' = w.hist
    /\ obs' = w.obs
    /\ achievements' = w.ach

(* A match about to start: the call of initiateGameStartSequence is pending *)
InitStart(m, kind, values, names) ==
    /\ gameState = MkGameState(m, kind, values, names, [id \in 1..Len(m.aiTypes) |-> 1], 1)
    /\ tasks = <<<<Frame("start")>>>>
    /\ storyWinLoss = <<>>
    /\ gameOverShown = 0
    /\ history = NoHistory(gameState)
    /\ obs = NoObs
    /\ achievements = NoAchievements

(* A match under way: a round has just begun, hands dealt, nobody has played *)
InitMid(m, kind, values, names, positions, cp) ==
    LET gs0 == AssignPaths(MkGameState(m, kind, values, names, positions, cp), 1)
        w0 == [gs |-> gs0, tasks |-> <<>>, cur |-> <<>>, ev |-> <<>>, shown |-> 0,
               hist |-> NoHistory(gs0), obs |-> NoObs, ret |-> FALSE,
               ach |-> NoAchievements]
        w1 == BeginRound(Replenish(w0, 1))
    IN  /\ gameState = w1.gs
        /\ tasks = w1.tasks \o (IF w1.cur # <<>> THEN <<w1.cur>> ELSE <<>>)
        /\ storyWinLoss = <<>>
        /\ gameOverShown = 0
        /\ history = NoHistory(gs0)
        /\ obs = NoObs
        /\ achievements = NoAchievements

----------------------------------------------------------------------------
(* Actions: one per resumption of a suspended call, one per human input *)

Victims == IF gameState.isKingNecroBattle THEN 0..NP(gameState) ELSE {0}

(* The world in which task k has been taken off the list to be resumed *)
Taking(k) == [World EXCEPT !.tasks = RemoveAt(tasks, k)]

At(k, pc) == k \in 1..Len(tasks) /\ tasks[k][1].pc = pc

(* The chains of the match start and of executeAiTurn have a single frame: neither
   is awaited by a caller with work left *)
Alone(k, pc) == At(k, pc) /\ Len(tasks[k]) = 1

StartMatch ==
    \E k \in 1..Len(tasks) :
        /\ Alone(k, "start")
        /\ Commit(initiateGameStartSequence(Taking(k)))

DrawToStart ==
    \E k \in 1..Len(tasks) :
        /\ Alone(k, "draw_wait")
        /\ Commit(drawToStart(Taking(k)))

DrawReveal ==
    \E k \in 1..Len(tasks) :
        /\ Alone(k, "draw_reveal")
        /\ Commit(decideDraw(Taking(k), tasks[k][1].drawn))

DrawDone ==
    \E k \in 1..Len(tasks) :
        /\ Alone(k, "draw_done")
        /\ Commit(finalizeGameStart(Taking(k)))

TurnIndicatorAck ==
    \E k \in 1..Len(tasks) :
        /\ At(k, "indicator")
        /\ Commit(RunStack(Taking(k), Tail(tasks[k]), NoInput))

AiThink ==
    \E k \in 1..Len(tasks), fail \in BOOLEAN :
        /\ Alone(k, "ai_think")
        /\ Commit(AiPart1(Taking(k), tasks[k][1].p, [NoInput EXCEPT !.fail = fail]))

AiEffect ==
    \E k \in 1..Len(tasks) :
        /\ Alone(k, "ai_effect")
        /\ Commit(AiPart2(Taking(k), tasks[k][1].p))

AiPlay ==
    \E k \in 1..Len(tasks), fail \in BOOLEAN :
        /\ Alone(k, "ai_play")
        /\ Commit(AiPlayBestMove(Taking(k), tasks[k][1], [NoInput EXCEPT !.fail = fail]))

AiPass ==
    \E k \in 1..Len(tasks) :
        /\ Alone(k, "ai_pass")
        /\ Commit(AiPassTurn(Taking(k)))

SummaryAck ==
    \E k \in 1..Len(tasks), victim \in Victims :
        /\ At(k, "summary")
        /\ Commit(RunStack(ResolveRound(Taking(k), tasks[k][1].winners,
                                        [NoInput EXCEPT !.victim = victim]),
                           Tail(tasks[k]), NoInput))

VersatrixAck ==
    \E k \in 1..Len(tasks) :
        /\ At(k, "tfe_yellow")
        /\ Commit(RunStack(Taking(k), tasks[k], NoInput))

FieldEffectAck ==
    \E k \in 1..Len(tasks), rnd \in 0..(MAX_EFFECT_CARDS_IN_HAND - 1) :
        /\ At(k, "tfe_named")
        /\ Commit(RunStack(Taking(k), tasks[k], [NoInput EXCEPT !.rnd = rnd]))

(* The human plays a card or ends the turn while the UI accepts input *)
HumanMayAct ==
    /\ gameState.gamePhase = "playing"
    /\ tasks = <<>>
    /\ gameState.currentPlayer \in 1..NP(gameState)
    /\ gameState.players[gameState.currentPlayer].isHuman

HumanPlayCard ==
    /\ HumanMayAct
    /\ LET id == gameState.currentPlayer
           hand == gameState.players[id].hand
       IN  \E k \in 1..Len(hand) :
             \E target \in {x \in 1..NP(gameState) : ~gameState.players[x].isEliminated} :
               /\ hand[k].type = "value" =>
                      target = id /\ ~gameState.players[id].playedValueCardThisTurn
               /\ \E q \in (IF hand[k].name = "Pula" THEN AvailablePaths(gameState) ELSE {-1}) :
                      Commit(playCard(
                          [World EXCEPT !.gs.players[target].targetPathForPula =
                              IF hand[k].name = "Pula" THEN q
                              ELSE gameState.players[target].targetPathForPula],
                          id, k, target))

HumanPass ==
    /\ HumanMayAct
    /\ Commit(advanceToNextPlayer(
           NotePass([World EXCEPT !.gs.consecutivePasses = gameState.consecutivePasses + 1],
                    gameState.currentPlayer)))

Next ==
    \/ StartMatch
    \/ DrawToStart
    \/ DrawReveal
    \/ DrawDone
    \/ TurnIndicatorAck
    \/ AiThink
    \/ AiEffect
    \/ AiPlay
    \/ AiPass
    \/ SummaryAck
    \/ VersatrixAck
    \/ FieldEffectAck
    \/ HumanPlayCard
    \/ HumanPass

----------------------------------------------------------------------------
(* Specifications *)

NamedKinds ==
    {Kind("blue", "Resto Maior"), Kind("red", "Resto Menor"), Kind("red", "Super Exposto"),
     Kind("red", "Castigo"), Kind("blue", "Impulso"), Kind("red", "Parada"),
     Kind("blue", "Desafio"), Kind("blue", "Jogo Aberto"), Kind("red", "Jogo Aberto"),
     Kind("red", "Carta Menor"), Kind("blue", "Carta Maior"),
     Kind("red", "Total Revesus Nada!"), Kind("blue", "Reversus Total")}

ColorKinds == {Kind("black", "null"), Kind("yellow", "null"), Kind("star", "null")}

(* Matches about to start *)
StartFamily ==
    \/ \E name \in {"solo", "contravox", "xael", "inversus"} :
         InitStart(ModeOf(name), Kind("star", "null"), <<4, 2, 4, 2, 6, 2>>, <<"Mais">>)
    \/ \E name \in {"final", "king"} :
         InitStart(ModeOf(name), Kind("black", "null"), <<4, 2, 4, 2, 6, 2, 8, 4>>, <<>>)

(* A value deck too short for the draw, and one on which the first draw is a tie *)
DrawFamily ==
    \/ InitStart(ModeOf("solo"), Plain, <<4, 4, 6, 2, 5, 3>>, <<"Mais", "Desce">>)
    \/ InitStart(ModeOf("solo"), Kind("black", "null"), <<2, 6, 4, 3, 5, 3>>,
                 <<"Menos", "Sobe">>)
    \/ \E values \in {<<>>, <<4>>} :
          InitStart(ModeOf("solo"), Plain, values, <<"Mais">>)

MidFamily ==
    \E name \in {"solo", "contravox"},
       kind \in ColorKinds \cup {Plain, Kind("blue", "Resto Maior"), Kind("red", "Carta Menor"),
                                 Kind("red", "Total Revesus Nada!")} :
        InitMid(ModeOf(name), kind, <<4, 2, 4, 2>>, <<"Mais">>, <<1, 1>>, 1)

(* Pawns next to the last space *)
EndgameFamily ==
    \E name \in {"solo", "versatrix", "contravox"}, kind \in {Plain, Kind("yellow", "null")},
       positions \in {<<WINNING_POSITION - 2, WINNING_POSITION - 2>>,
                      <<WINNING_POSITION - 1, WINNING_POSITION - 2>>} :
        InitMid(ModeOf(name), kind, <<4, 2, 4, 2>>, <<"Sobe">>, positions, 1)

TeamFamily ==
    \/ InitMid(ModeOf("final"), Kind("black", "null"), <<4, 2, 4, 2, 6, 2, 8, 4>>, <<>>,
               <<1, 1, 1, 1>>, 1)
    \/ InitMid(ModeOf("king"), Plain, <<4, 2, 4, 2, 6, 2>>, <<>>, <<1, 1, 1>>, 1)

(* The AI holds an effect card *)
AiFamily ==
    InitMid(ModeOf("solo"), Plain, <<4, 2, 4, 2>>, <<"Menos", "Desce">>, <<1, 1>>, 1)

(* The Xael challenge under way, the Star Power of player 1 recharging *)
InitXael(cooldown) ==
    LET gs0 == AssignPaths(MkGameState(ModeOf("xael"), Plain, <<4, 2, 4, 2>>, <<>>,
                                       <<1, 1>>, 2), 1)
        gs1 == [gs0 EXCEPT !.players[1].xaelStarPowerCooldown = cooldown]
        w0 == [gs |-> gs1, tasks |-> <<>>, cur |-> <<>>, ev |-> <<>>, shown |-> 0,
               hist |-> NoHistory(gs1), obs |-> NoObs, ret |-> FALSE,
               ach |-> NoAchievements]
        w1 == BeginRound(Replenish(w0, 1))
    IN  /\ gameState = w1.gs
        /\ tasks = w1.tasks \o (IF w1.cur # <<>> THEN <<w1.cur>> ELSE <<>>)
        /\ storyWinLoss = <<>>
        /\ gameOverShown = 0
        /\ history = NoHistory(gs1)
        /\ obs = NoObs
        /\ achievements = NoAchievements

XaelFamily == \E cooldown \in 1..MaxCooldown : InitXael(cooldown)

Init ==
    \/ StartFamily \/ DrawFamily \/ MidFamily \/ EndgameFamily \/ TeamFamily \/ AiFamily
    \/ XaelFamily

Spec == Init /\ [][Next]_vars

----------------------------------------------------------------------------
(* The end of a round: every player has played and all but the last pass has been
   made; the human, whose turn it is, makes it *)

Attr(pos, played, resto, score, movement, fe, elim) ==
    [pos |-> pos, played |-> played, resto |-> resto, score |-> score,
     movement |-> movement, fe |-> fe, elim |-> elim]

LyingEffects(id, a) ==
    (IF a.score # "null" THEN <<EffectCard(10 * id + 1, a.score)>> ELSE <<>>)
    \o (IF a.movement # "null" THEN <<EffectCard(10 * id + 2, a.movement)>> ELSE <<>>)

RoundEndPlayer(id, m, a) ==
    [MkPlayer(id, m, a.pos) EXCEPT
        !.isEliminated = a.elim,
        !.playedCards = [value |-> [k \in 1..Len(a.played) |-> ValueCard(10 * id + k, a.played[k])],
                         effect |-> LyingEffects(id, a)],
        !.effects = [score |-> a.score, movement |-> a.movement],
        !.resto = IF a.resto = 0 THEN Null ELSE ValueCard(10 * id + 9, a.resto),
        !.nextResto = IF a.played = <<>> THEN Null
                      ELSE ValueCard(10 * id + Len(a.played), a.played[Len(a.played)]),
        !.hand = <<ValueCard(10 * id + 8, id + 2)>>,
        !.targetPathForPula = IF a.movement = "Pula" THEN Len(m.aiTypes) ELSE -1]

(* The players stand where attrs puts them; a named space a player came to stand on
   at the start of this round has recorded its effect for that player *)
RoundEndState(m, kind, hearts, attrs) ==
    LET np == Len(m.aiTypes)
        base == AssignPaths(MkGameState(m, kind, <<3, 7>>, <<>>, [id \in 1..np |-> attrs[id].pos], 1), 1)
        onSpecial == {id \in 1..np : attrs[id].pos \in SpecialPositions}
        affected == {id \in onSpecial : attrs[id].fe /\ kind.effectName # "null"
                                        /\ ~attrs[id].elim}
    IN  [base EXCEPT
            !.players = [id \in 1..np |->
                            [RoundEndPlayer(id, m, attrs[id])
                                EXCEPT !.pathId = base.players[id].pathId]],
            !.gamePhase = "playing",
            !.consecutivePasses = (2 * Cardinality({id \in 1..np : ~attrs[id].elim})) - 1,
            !.necroversoHearts = hearts,
            !.discardPiles.value =
                SelectSeq([id \in 1..np |-> ValueCard(10 * id + 9, attrs[id].resto)],
                          LAMBDA c : c.value # 0),
            !.activeFieldEffects =
                [k \in 1..Cardinality(affected) |->
                    [name |-> kind.effectName,
                     type |-> IF kind.color = "blue" THEN "positive" ELSE "negative",
                     appliesTo |-> CHOOSE id \in affected :
                                       Cardinality({x \in affected : x < id}) = k - 1]],
            !.boardPaths =
                [q \in DOMAIN base.boardPaths |->
                    [pos \in 1..WINNING_POSITION |->
                        [base.boardPaths[q][pos] EXCEPT !.isUsed =
                            \E id \in onSpecial : /\ base.players[id].pathId = q
                                                  /\ attrs[id].pos = pos]]]]

PlayerCards(p) ==
    CardIds(p.hand) \cup CardIds(p.playedCards.value) \cup CardIds(p.playedCards.effect)

InitRoundEnd(m, kind, hearts, attrs) ==
    /\ gameState = RoundEndState(m, kind, hearts, attrs)
    /\ tasks = <<>>
    /\ storyWinLoss = <<>>
    /\ gameOverShown = 0
    /\ history =
          [cards |-> CardIds(gameState.decks.value) \cup CardIds(gameState.discardPiles.value)
                     \cup UNION {PlayerCards(gameState.players[id]) : id \in 1..NP(gameState)},
           fired |-> {<<gameState.players[id].pathId, gameState.players[id].position>> :
                         id \in {x \in 1..NP(gameState) :
                                    gameState.players[x].position \in SpecialPositions}},
           passes |-> [id \in 1..NP(gameState) |->
                          IF gameState.players[id].isEliminated THEN 0
                          ELSE IF id = gameState.currentPlayer THEN 1 ELSE 2],
           visits |-> <<>>,
           noted |-> [turn |-> gameState.turn,
                      recs |-> Named(gameState.activeFieldEffects)],
           calls |-> [counted |-> TRUE,
                      n |-> IF \E id \in 1..NP(gameState) : ~gameState.players[id].isEliminated
                      THEN 1 ELSE 0,
                      run |-> IF \E id \in 1..NP(gameState) : ~gameState.players[id].isEliminated
                              THEN 1 ELSE 0]]
    /\ obs = NoObs
    /\ achievements = NoAchievements

Still(played) == Attr(1, played, 4, "null", "null", FALSE, FALSE)

ScoreFamily ==
    \E kind \in {Plain, Kind("blue", "Resto Maior"), Kind("red", "Resto Menor"),
                 Kind("red", "Super Exposto")} :
      \E played \in {<<>>, <<5>>, <<5, 3>>}, resto \in {0, 4},
         score \in {"null"} \cup ScoreEffects, fe \in BOOLEAN,
         played2 \in {<<5>>, <<9>>}, score2 \in {"null", "Menos"} :
        InitRoundEnd(ModeOf("solo"), kind, 0,
                     <<Attr(2, played, resto, score, "null", fe, FALSE),
                       Attr(1, played2, 4, score2, "null", FALSE, FALSE)>>)

TieFamily ==
    \/ \E p1 \in {<<4>>, <<6>>}, p2 \in {<<4>>, <<6>>} :
         InitRoundEnd(ModeOf("solo"), Plain, 0, <<Still(p1), Still(p2)>>)
    \/ \E name \in {"duo", "final"} :
         \E p1 \in {<<4>>, <<6>>}, p2 \in {<<4>>, <<6>>}, p3 \in {<<4>>, <<6>>},
            p4 \in {<<4>>, <<6>>}, e2 \in BOOLEAN, e3 \in BOOLEAN, e4 \in BOOLEAN :
           InitRoundEnd(ModeOf(name), Plain, MaxHearts,
                        <<Still(p1), [Still(p2) EXCEPT !.elim = e2],
                          [Still(p3) EXCEPT !.elim = e3], [Still(p4) EXCEPT !.elim = e4]>>)

StartPositions == {1, 2, WINNING_POSITION - 2, WINNING_POSITION - 1}

Mover(pos, played, movement) == Attr(pos, played, 4, "null", movement, TRUE, FALSE)

MoveFamily ==
    \/ \E name \in {"solo", "versatrix"}, kind \in NamedKinds \cup {Plain} :
         \E pos1 \in StartPositions, pos2 \in StartPositions,
            p1 \in {<<4>>, <<6>>}, m1 \in {"null"} \cup MovementEffects,
            m2 \in {"null", "Sobe", "Desce"} :
           InitRoundEnd(ModeOf(name), kind, 0, <<Mover(pos1, p1, m1), Mover(pos2, <<5>>, m2)>>)
    \/ \E name \in {"solo", "versatrix"}, kind \in ColorKinds :
         \E pos1 \in StartPositions \ SpecialPositions,
            pos2 \in StartPositions \ SpecialPositions,
            p1 \in {<<4>>, <<6>>}, m1 \in {"null"} \cup MovementEffects,
            m2 \in {"null", "Sobe", "Desce"} :
           InitRoundEnd(ModeOf(name), kind, 0, <<Mover(pos1, p1, m1), Mover(pos2, <<5>>, m2)>>)
    \/ \E kind \in ColorKinds, hearts \in 1..MaxHearts :
         \E pos2 \in StartPositions \ SpecialPositions, p1 \in {<<4>>, <<6>>},
            p3 \in {<<4>>, <<5>>} :
           InitRoundEnd(ModeOf("final"), kind, hearts,
                        <<Mover(1, p1, "null"), Mover(pos2, <<5>>, "null"),
                          Mover(1, p3, "null"), Mover(1, <<4>>, "null")>>)

(* Every score is below zero *)
NegativeFamily ==
    \E p1 \in {<<2>>, <<3>>}, p2 \in {<<2>>, <<3>>} :
        InitRoundEnd(ModeOf("solo"), Plain, 0,
                     <<Attr(1, p1, 4, "Menos", "null", FALSE, FALSE),
                       Attr(1, p2, 4, "Menos", "null", FALSE, FALSE)>>)

(* The round winner comes to stand on a black, yellow or star space that also
   carries the name of an effect *)
OverlapFamily ==
    \E kind \in {Kind("black", "Castigo"), Kind("yellow", "Parada"), Kind("star", "Impulso")},
       name \in {"solo", "versatrix"}, m2 \in {"null", "Sobe"} :
        InitRoundEnd(ModeOf(name), kind, 0, <<Mover(1, <<6>>, "null"), Mover(1, <<5>>, m2)>>)

InitResolution ==
    ScoreFamily \/ TieFamily \/ MoveFamily \/ NegativeFamily \/ OverlapFamily

NextResolution == HumanPass \/ SummaryAck \/ VersatrixAck \/ FieldEffectAck

SpecResolution == InitResolution /\ [][NextResolution]_vars

----------------------------------------------------------------------------
(* Properties *)

ActiveCount == Len(ActivePlayers(gameState))

(* C1: with N >= 1 players not eliminated, a round ends exactly when consecutivePasses
   has reached 2N: the step that ends a round finds the counter at 2N, and while a
   turn is in progress the counter is below 2N *)
C1_PassTermination ==
    /\ (obs.roundEnded /\ ActiveCount >= 1) =>
           /\ gameState.consecutivePasses = 2 * ActiveCount
           /\ gameState.gamePhase = "resolution"
    /\ (gameState.gamePhase \in {"playing", "paused"} /\ ActiveCount >= 1) =>
           gameState.consecutivePasses < 2 * ActiveCount

C1_Witness ==
    obs.roundEnded /\ ActiveCount >= 1 /\ gameState.turn > 1

(* C2: called in a phase other than playing, advanceToNextPlayer changes nothing of
   the game state, starts no turn and ends no round *)
C2_AdvanceNoOp ==
    gameState.gamePhase # "playing" =>
        advanceToNextPlayer(World) = [World EXCEPT !.obs.advNoop = TRUE]

C2_Witness == obs.advNoop /\ obs.fired

(* C3: a story battle that has ended has dispatched storyWinLoss exactly once *)
C3_OneStoryWinLoss ==
    (gameState.isStoryMode /\ gameState.gamePhase = "game_over") => Len(storyWinLoss) = 1

(* C4: when checkGameEnd returns true the phase is game_over and nothing more is done
   for the round: no later check, no first turn, no pending turn; when it is the
   check of the round resolution, no reseeding of currentPlayer and no new round *)
C4_State ==
    /\ \A k \in 1..(Len(obs.cge) - 1) : ~obs.cge[k]
    /\ (obs.cge # <<>> /\ obs.cge[Len(obs.cge)]) =>
           /\ gameState.gamePhase = "game_over"
           /\ ~obs.began
           /\ tasks = <<>>
    /\ (obs.resolved /\ obs.cge # <<>> /\ obs.cge[1]) => ~obs.seeded

C4_Step ==
    (obs'.resolved /\ obs'.cge # <<>> /\ obs'.cge[1]) =>
        /\ gameState'.currentPlayer = gameState.currentPlayer
        /\ gameState'.turn = gameState.turn

C4_StopOnGameEnd == []C4_State /\ [][C4_Step]_vars

C4_Witness == obs.cge = <<FALSE, TRUE>>

(* C5: at most one suspended turn or resolution sequence exists at any time *)
C5_SingleSequence == Len(tasks) <= 1

C5_Witness == obs.advNoop /\ obs.began /\ Len(tasks) = 1

(* C6: no card of the match is dropped: each is in a deck, a hand, the played cards
   or a discard pile, among the cards of an initial draw in progress, or is a resto *)
C6_NoCardDropped ==
    LET gs == gameState
        ids == 1..NP(gs)
        held == CardIds(gs.decks.value) \cup CardIds(gs.decks.effect)
                \cup CardIds(gs.discardPiles.value) \cup CardIds(gs.discardPiles.effect)
                \cup UNION {PlayerCards(gs.players[id]) : id \in ids}
        drawn == UNION {CardIds(tasks[k][1].drawn) \cup
                            (IF tasks[k][1].pc = "draw_done" THEN CardIds(gs.initialDrawCards)
                             ELSE {}) : k \in 1..Len(tasks)}
        restos == {gs.players[id].resto.id : id \in ids}
                  \cup {gs.players[id].nextResto.id : id \in ids}
    IN  history.cards \subseteq (held \cup drawn \cup restos)

(* C7: every player's position is within 1..WINNING_POSITION *)
C7_MovementClamping ==
    \A id \in 1..NP(gameState) : gameState.players[id].position \in 1..WINNING_POSITION

C7_Witness ==
    /\ obs.resolved
    /\ \E id \in 1..NP(gameState) :
          /\ ~obs.before[id].isEliminated
          /\ obs.before[id].position = 1
          /\ obs.before[id].effects.movement = "Desce"
          /\ gameState.players[id].position = 1

(* C8: when a round has been scored, the liveScore of each player not eliminated is
   the sum of the played values, plus restoValue under Mais, minus restoValue (twice
   under Super Exposto) under Menos, plus 10 under NECRO X, minus 10 under NECRO X
   Invertido; restoValue is the value of the resto (0 without one), 10 under Resto
   Maior and 2 under Resto Menor *)
C8_Score ==
    obs.roundEnded =>
        \A id \in 1..NP(gameState) :
            LET p == gameState.players[id]
                has(name) == \E k \in 1..Len(gameState.activeFieldEffects) :
                                 /\ gameState.activeFieldEffects[k].name = name
                                 /\ gameState.activeFieldEffects[k].appliesTo = id
                rv == IF has("Resto Menor") THEN 2
                      ELSE IF has("Resto Maior") THEN 10
                      ELSE IF p.resto = Null THEN 0 ELSE p.resto.value
                change == CASE p.effects.score = "Mais" -> rv
                            [] p.effects.score = "Menos" ->
                                   0 - (IF has("Super Exposto") THEN 2 * rv ELSE rv)
                            [] p.effects.score = "NECRO X" -> 10
                            [] p.effects.score = "NECRO X Invertido" -> 0 - 10
                            [] OTHER -> 0
            IN  ~p.isEliminated => p.liveScore = SumValues(p.playedCards.value) + change

C8_Witness ==
    /\ obs.roundEnded
    /\ gameState.players[1].effects.score = "Menos"
    /\ HasFieldEffect(gameState, "Super Exposto", 1)
    /\ gameState.players[1].resto # Null
    /\ gameState.players[1].liveScore =
           SumValues(gameState.players[1].playedCards.value)
           - (2 * gameState.players[1].resto.value)

(* C9: when two or more players not eliminated share the top score, the round has no
   winner outside duo mode; in duo mode the tied players win when they are all on one
   team and nobody wins otherwise *)
C9_TieVoiding ==
    obs.roundEnded =>
        LET gs == gameState
            live == {id \in 1..NP(gs) : ~gs.players[id].isEliminated}
            top == {id \in live : \A j \in live : gs.players[id].liveScore >= gs.players[j].liveScore}
            teams == IF gs.currentStoryBattle = "necroverso_final"
                     THEN {{1, 4}, {2, 3}} ELSE {TEAM_A, TEAM_B}
            winners == tasks[1][1].winners
        IN  Cardinality(top) >= 2 =>
                IF gs.gameMode = "duo" /\ \E t \in teams : top \subseteq t
                THEN SeqToSet(winners) = top /\ Len(winners) = Cardinality(top)
                ELSE winners = <<>>

C9_Witness ==
    /\ obs.roundEnded
    /\ gameState.currentStoryBattle = "necroverso_final"
    /\ tasks[1][1].winners = <<1, 4>>

(* C10: triggerFieldEffects passes over a player who stands on a used space and
   changes nothing for it, and no space takes effect twice *)
C10_SingleFire ==
    /\ ~obs.refired
    /\ \A k \in 1..NP(gameState) :
          LET p == gameState.players[gameState.playerIdsInGame[k]] IN
          (/\ ~p.isEliminated
           /\ p.pathId \in DOMAIN gameState.boardPaths
           /\ gameState.boardPaths[p.pathId][p.position].isUsed) =>
              FieldStep(World, k, gameState.currentPlayer)
                  = Go([World EXCEPT !.obs.skippedUsed = TRUE])

C10_Witness == obs.skippedUsed /\ ~obs.fired /\ obs.began

(* C11: a player marked eliminated keeps score and position: a step leaves both as
   they were for every player eliminated before it, and a player eliminated by a
   black space during a step ends the step with the score and position held when
   marked *)
C11_State ==
    \A k \in 1..Len(obs.elim) :
        LET p == gameState.players[obs.elim[k].id] IN
        /\ p.isEliminated
        /\ p.position = obs.elim[k].at.position
        /\ p.liveScore = obs.elim[k].at.liveScore

C11_Step ==
    \A id \in 1..NP(gameState) :
        gameState.players[id].isEliminated =>
            /\ gameState'.players[id].position = gameState.players[id].position
            /\ gameState'.players[id].liveScore = gameState.players[id].liveScore

C11_EliminationShortCircuit == []C11_State /\ [][C11_Step]_vars

C11_Witness ==
    /\ obs.resolved
    /\ \E id \in 1..NP(gameState) : obs.before[id].isEliminated
    /\ \E id \in 1..NP(gameState) : gameState.players[id].position # obs.before[id].position

AllCards ==
    LET gs == gameState IN
    SeqToSet(gs.decks.value) \cup SeqToSet(gs.decks.effect)
    \cup SeqToSet(gs.discardPiles.value) \cup SeqToSet(gs.discardPiles.effect)
    \cup SeqToSet(gs.initialDrawCards)
    \cup UNION {SeqToSet(gs.players[id].hand) \cup SeqToSet(gs.players[id].playedCards.value)
                \cup SeqToSet(gs.players[id].playedCards.effect) : id \in 1..NP(gs)}

(* C12: no null card lies in a hand, a pile or among the played cards, and a resto
   once drawn is a card; a failed deal of the initial draw leaves currentPlayer and
   the phase as they were and starts nothing; replenishment asks at most once more
   after a failed deal for a player and kind; a failed redraw of Carta Menor or
   Carta Maior leaves the hand as the discard left it *)
C12_State ==
    /\ Null \notin AllCards
    /\ gameState.initialDrawCards # <<>> /\ gameState.gamePhase # "setup" =>
           \A id \in 1..NP(gameState) : gameState.players[id].resto # Null
    /\ obs.dealFailed => tasks = <<>> /\ ~obs.began
    /\ \A j, k \in 1..Len(obs.nulls) : obs.nulls[j] = obs.nulls[k] => j = k
    /\ \A k \in 1..Len(obs.redrawFail) :
           gameState.players[obs.redrawFail[k].id].hand = obs.redrawFail[k].hand

C12_Step ==
    obs'.dealFailed =>
        /\ gameState'.currentPlayer = gameState.currentPlayer
        /\ gameState'.gamePhase = gameState.gamePhase
        /\ gameState'.turn = gameState.turn
        /\ gameState'.players = gameState.players

C12_NullDealStops == []C12_State /\ [][C12_Step]_vars

C12_Witness ==
    /\ obs.dealFailed
    /\ Len(gameState.decks.value) + 1 = Cardinality({c \in history.cards : c < 100})

(* C13: a step in which the AI fails while choosing or playing a card adds exactly
   one to consecutivePasses and advances once from the phase playing: either the
   round ends, or the next active player after the AI is given the turn *)
C13_Step ==
    obs'.aiFailed =>
        LET next == NextActive(gameState,
                               IndexOf(gameState.playerIdsInGame, gameState.currentPlayer), 0)
        IN  /\ gameState'.consecutivePasses = gameState.consecutivePasses + 1
            /\ ~obs'.advNoop
            /\ IF obs'.roundEnded
               THEN /\ gameState'.gamePhase = "resolution"
                    /\ gameState'.currentPlayer = gameState.currentPlayer
               ELSE /\ gameState'.currentPlayer = next
                    /\ Len(tasks') = 1 /\ Len(tasks'[1]) = 1
                    /\ tasks'[1][1].p = next
                    /\ IF gameState.players[next].isHuman
                       THEN tasks'[1][1].pc = "indicator" /\ gameState'.gamePhase = "playing"
                       ELSE tasks'[1][1].pc = "ai_think" /\ gameState'.gamePhase = "paused"

C13_AiFailureIsPass == [][C13_Step]_vars

C13_Witness ==
    /\ obs.aiFailed
    /\ ~obs.roundEnded
    /\ gameState.consecutivePasses >= 1
    /\ gameState.players[gameState.currentPlayer].isHuman

(* C14: the scan for the next active player examines at most 2 * playerIdsInGame.length
   players and finds a player exactly when one is not eliminated; a pass made when
   nobody is active ends the round with currentPlayer as it was *)
C14_State ==
    LET scan == NextActiveScan(gameState,
                               IndexOf(gameState.playerIdsInGame, gameState.currentPlayer), 0)
    IN  /\ scan.steps <= 2 * NP(gameState)
        /\ scan.id = 0 <=> ActiveCount = 0

C14_Step ==
    (/\ ActiveCount = 0
     /\ gameState.gamePhase \in {"playing", "paused"}
     /\ gameState'.consecutivePasses = gameState.consecutivePasses + 1) =>
        /\ obs'.roundEnded
        /\ gameState'.gamePhase = "resolution"
        /\ gameState'.currentPlayer = gameState.currentPlayer

C14_ScanTerminates == []C14_State /\ [][C14_Step]_vars

C14_Witness == obs.roundEnded /\ ActiveCount = 0 /\ gameState.gamePhase = "resolution"

(* C15: while a call chain waits at a pacing timer of the AI or at a field-effect
   or Versatrix modal, gamePhase is paused (the turn indicator, whose code is not
   part of the sources, is left out) *)
C15_PausedWhileSuspended ==
    \A k \in 1..Len(tasks) :
        tasks[k][1].pc \in {"ai_think", "ai_effect", "ai_play", "ai_pass",
                            "tfe_named", "tfe_yellow"} =>
            gameState.gamePhase = "paused"

(* C16: no step changes playerIdsInGame, and no step clears an isEliminated flag *)
C16_Step ==
    /\ gameState'.playerIdsInGame = gameState.playerIdsInGame
    /\ \A id \in 1..NP(gameState) :
           gameState.players[id].isEliminated => gameState'.players[id].isEliminated

C16_TurnOrderFixed == [][C16_Step]_vars

C16_Witness ==
    /\ gameState.initialDrawCards # <<>>
    /\ gameState.initialDrawCards[2].value > gameState.initialDrawCards[1].value
    /\ gameState.currentPlayer = 2
    /\ gameState.playerIdsInGame = <<1, 2>>
    /\ \E id \in 1..NP(gameState) : gameState.players[id].isEliminated

(* C17: a step that has set gamePhase to game_over, in triggerFieldEffects or in
   checkGameEnd, ends with the phase game_over, begins no turn and leaves no call
   chain pending *)
C17_GameOverAbsorbing ==
    (obs.over \/ (obs.cge # <<>> /\ obs.cge[Len(obs.cge)])) =>
        /\ gameState.gamePhase = "game_over"
        /\ ~obs.began
        /\ tasks = <<>>

(* C18: the player whose turn begins - the one waiting at the turn indicator or
   starting an AI turn - is currentPlayer and is not eliminated *)
C18_TurnOfActivePlayer ==
    \A k \in 1..Len(tasks) :
        tasks[k][1].pc \in {"indicator", "ai_think"} =>
            /\ tasks[k][1].p = gameState.currentPlayer
            /\ ~gameState.players[gameState.currentPlayer].isEliminated

(* C19: when a round ends, every player not eliminated has ended a turn at least
   twice since the last card was played or the round started *)
C19_TwoLaps ==
    obs.roundEnded =>
        \A id \in 1..NP(gameState) :
            ~gameState.players[id].isEliminated => history.passes[id] >= 2

(* The player at distance d after the player from in the circular turn order *)
PlayerAfter(from, d) ==
    LET ids == gameState.playerIdsInGame
        i == CHOOSE k \in 1..Len(ids) : ids[k] = from
    IN  ids[((i - 1 + d) % Len(ids)) + 1]

(* The turn went to the player at distance d after adv.from, every player between
   them being eliminated *)
FirstActiveAt(adv, d) ==
    /\ gameState.currentPlayer = PlayerAfter(adv.from, d)
    /\ ~adv.players[PlayerAfter(adv.from, d)].isEliminated
    /\ \A e \in 1..(d - 1) : adv.players[PlayerAfter(adv.from, e)].isEliminated

(* C20: when advanceToNextPlayer does not end the round, currentPlayer becomes the
   first non-eliminated player strictly after the previous one in the circular order
   of playerIdsInGame, that player's playedValueCardThisTurn is false, and
   consecutivePasses and every other player are as they were *)
C20_NextPlayerOnly ==
    obs.adv # <<>> =>
        /\ \E d \in 1..NP(gameState) : FirstActiveAt(obs.adv[1], d)
        /\ ~gameState.players[gameState.currentPlayer].playedValueCardThisTurn
        /\ gameState.consecutivePasses = obs.adv[1].passes
        /\ \A id \in 1..NP(gameState) :
               id # gameState.currentPlayer => gameState.players[id] = obs.adv[1].players[id]

(* The turn passed over an eliminated player *)
C20_Witness ==
    /\ obs.adv # <<>>
    /\ \E d \in 2..NP(gameState) : FirstActiveAt(obs.adv[1], d)
    /\ \E id \in 1..NP(gameState) :
           /\ id # gameState.currentPlayer
           /\ ~gameState.players[id].isEliminated

(* The non-eliminated players *)
Active == {id \in 1..NP(gameState) : ~gameState.players[id].isEliminated}

(* C21: the winners found before tie resolution are exactly the non-eliminated players
   whose final score is the greatest final score of a non-eliminated player, each
   listed once, whatever the sign of the scores; no eliminated player is among them *)
C21_Winners ==
    obs.scored # <<>> =>
        LET s == obs.scored[1] IN
        /\ SeqToSet(s.winners) =
               {id \in Active : \A j \in Active : s.scores[id] >= s.scores[j]}
        /\ Cardinality(SeqToSet(s.winners)) = Len(s.winners)
        /\ \A id \in Active : s.scores[id] = SumValues(gameState.players[id].playedCards.value)
               + (IF gameState.players[id].effects.score = "Menos"
                  THEN 0 - restoValue(gameState, id) * scoreModifier(gameState, id)
                  ELSE 0)
               + (IF gameState.players[id].effects.score = "Mais"
                  THEN restoValue(gameState, id) ELSE 0)
               + (IF gameState.players[id].effects.score = "NECRO X" THEN NECRO_X_BONUS ELSE 0)
               - (IF gameState.players[id].effects.score = "NECRO X Invertido"
                  THEN NECRO_X_BONUS ELSE 0)

(* Every score is negative and the players share the greatest one *)
C21_Witness ==
    /\ obs.scored # <<>>
    /\ \A id \in Active : obs.scored[1].scores[id] < 0
    /\ Len(obs.scored[1].winners) > 1

(* The field effect name targets the player id in the list effects *)
Targets(effects, name, id) ==
    \E k \in 1..Len(effects) : effects[k].name = name /\ effects[k].appliesTo = id

(* The position of player b after the card effects of phase A *)
AfterCardMovement(m, b) ==
    IF b.effects.movement = "Sobe" THEN Min(WINNING_POSITION, b.position + 1)
    ELSE IF b.effects.movement = "Desce"
         THEN Max(1, b.position - (IF Targets(m.effects, "Super Exposto", b.id) THEN 2 ELSE 1))
         ELSE b.position

(* The position after the field effects of phase A, which losers alone undergo *)
AfterLoserEffects(m, b, pos) ==
    IF b.id \in SeqToSet(m.winners) \/ m.winners = <<>> THEN pos
    ELSE IF Targets(m.effects, "Castigo", b.id) THEN Max(1, pos - 3)
    ELSE IF Targets(m.effects, "Impulso", b.id) THEN Min(WINNING_POSITION, pos + 1)
    ELSE pos

(* C22: phase A moves every non-eliminated player by their movement card (Sobe up 1
   capped, Desce down 1 or 2 floored at 1, Pula to the chosen path), then Castigo
   and Impulso move the players who did not win a round that has a winner; nothing
   else of a player changes and eliminated players are left alone *)
C22_MovementA ==
    obs.moved # <<>> =>
        \A id \in 1..NP(gameState) :
            LET m == obs.moved[1]
                b == obs.before[id]
                a == m.afterA[id]
            IN  IF b.isEliminated THEN a = b
                ELSE /\ a.position = AfterLoserEffects(m, b, AfterCardMovement(m, b))
                     /\ a.pathId = IF b.effects.movement = "Pula" /\ b.targetPathForPula # -1
                                   THEN b.targetPathForPula ELSE b.pathId
                     /\ a = [b EXCEPT !.position = a.position, !.pathId = a.pathId]

(* A winner and a loser stand under Castigo or Impulso: the loser alone is moved *)
C22_Witness ==
    /\ obs.moved # <<>>
    /\ \E id \in 1..NP(gameState), other \in 1..NP(gameState),
           name \in {"Castigo", "Impulso"} :
           /\ id \in SeqToSet(obs.moved[1].winners)
           /\ other \notin SeqToSet(obs.moved[1].winners)
           /\ Targets(obs.moved[1].effects, name, id)
           /\ Targets(obs.moved[1].effects, name, other)
           /\ obs.moved[1].afterA[id].position = obs.before[id].position
           /\ obs.moved[1].afterA[other].position # obs.before[other].position

(* Some field effect targets the player id *)
Targeted(effects, id) == \E k \in 1..Len(effects) : effects[k].appliesTo = id

(* The steps a winner advances in phase B *)
WinnerSteps(m, a) ==
    IF Targets(m.effects, "Parada", a.id) THEN 0
    ELSE IF /\ Targets(m.effects, "Desafio", a.id)
            /\ a.effects.score # "Mais"
            /\ a.effects.movement # "Sobe"
         THEN 3
         ELSE 1

(* C23: phase B moves the round winners alone: none under Parada, 3 steps under a
   Desafio met without Mais and without Sobe, 1 step otherwise, capped at the last
   space; a player who did not win, holds no movement card and is the target of no
   field effect ends the movement where they stood *)
C23_MovementB ==
    obs.moved # <<>> =>
        \A id \in 1..NP(gameState) :
            LET m == obs.moved[1]
                a == m.afterA[id]
                c == m.afterB[id]
            IN  /\ id \in SeqToSet(m.winners) =>
                       c = [a EXCEPT !.position =
                                         Min(WINNING_POSITION, a.position + WinnerSteps(m, a))]
                /\ id \notin SeqToSet(m.winners) => c = a
                /\ (/\ id \notin SeqToSet(m.winners)
                    /\ obs.before[id].effects.movement = "null"
                    /\ ~Targeted(m.effects, id)) => c.position = obs.before[id].position

(* A winner meets the Desafio and advances 3 steps while the other player stays *)
C23_Witness ==
    /\ obs.moved # <<>>
    /\ \E id \in 1..NP(gameState), other \in 1..NP(gameState) :
           /\ id \in SeqToSet(obs.moved[1].winners)
           /\ Targets(obs.moved[1].effects, "Desafio", id)
           /\ obs.moved[1].afterB[id].position = obs.moved[1].afterA[id].position + 3
           /\ other \notin SeqToSet(obs.moved[1].winners)
           /\ obs.moved[1].afterB[other].position = obs.before[other].position

(* The place of the player id in the turn order *)
TurnPlace(id) == CHOOSE k \in 1..NP(gameState) : gameState.playerIdsInGame[k] = id

(* The player who leads the round that follows the resolution m *)
IsSeed(m, id) ==
    IF m.winners = <<>> THEN id = m.current
    ELSE /\ id \in SeqToSet(m.winners)
         /\ \A j \in SeqToSet(m.winners) : TurnPlace(id) <= TurnPlace(j)

(* A turn has been given to the player id *)
TurnGiven(id) ==
    \E k \in 1..Len(tasks) : tasks[k][1].pc \in {"indicator", "ai_think"} /\ tasks[k][1].p = id

(* A modal of the field effects that open a round is waiting *)
RoundOpening ==
    \E k \in 1..Len(tasks) : tasks[k][1].pc \in {"tfe_named", "tfe_yellow"}

C24_State ==
    obs.moved # <<>> =>
        /\ obs.seeded <=> (obs.cge # <<>> /\ obs.cge[1] = FALSE)
        /\ obs.seeded => IsSeed(obs.moved[1], gameState.currentPlayer)
        /\ obs.began => obs.seeded /\ TurnGiven(gameState.currentPlayer)

C24_Step ==
    (RoundOpening /\ obs'.began) =>
        /\ gameState'.currentPlayer = gameState.currentPlayer
        /\ TurnGiven(gameState.currentPlayer)'

(* C24: a resolution that does not end the game sets currentPlayer, after the game-end
   check, to the first round winner in turn order, or leaves it when the round is
   void; the round that follows begins with that player, also when field-effect
   modals come in between *)
C24_NextRoundSeed == []C24_State /\ [][C24_Step]_vars

(* The next round begins with the round winner, who did not hold the turn before *)
C24_Witness ==
    /\ obs.moved # <<>> /\ obs.seeded /\ obs.began
    /\ obs.moved[1].winners # <<>>
    /\ gameState.currentPlayer # obs.moved[1].current
    /\ TurnGiven(gameState.currentPlayer)

----------------------------------------------------------------------------
(* checkGameEnd on its own: the state is one in which a resolution or a round start
   calls it, and the one action is the call *)

AtEnd == {1, WINNING_POSITION}

InitCheck(name, elim, positions, stars, hearts) ==
    /\ gameState =
          [MkGameState(ModeOf(name), Plain, <<>>, <<>>, positions, 1) EXCEPT
              !.gamePhase = "resolution",
              !.necroversoHearts = hearts,
              !.players = [id \in DOMAIN @ |->
                              [@[id] EXCEPT !.isEliminated = elim[id], !.stars = stars[id]]]]
    /\ tasks = <<>>
    /\ storyWinLoss = <<>>
    /\ gameOverShown = 0
    /\ history = NoHistory(gameState)
    /\ obs = NoObs
    /\ achievements = NoAchievements

FinalChecks ==
    \E elim \in [1..4 -> BOOLEAN], hearts \in 0..MaxHearts, p1 \in AtEnd, p2 \in AtEnd :
        InitCheck("final", elim, <<p1, p2, 1, 1>>, <<0, 0, 0, 0>>, hearts)

KingChecks ==
    \E elim \in [1..3 -> BOOLEAN], p1 \in AtEnd, p2 \in AtEnd :
        InitCheck("king", elim, <<p1, p2, 1>>, <<0, 0, 0>>, 0)

StandardChecks ==
    \E name \in {"solo", "xael", "contravox"}, elim \in [1..2 -> BOOLEAN],
       p1 \in AtEnd, p2 \in AtEnd, s1 \in 0..1, s2 \in 0..1 :
        InitCheck(name, elim, <<p1, p2>>, <<s1, s2>>, 0)

InitGameEnd == FinalChecks \/ KingChecks \/ StandardChecks

GameEndCheck ==
    /\ gameState.gamePhase = "resolution"
    /\ Commit(checkGameEnd(World))

SpecGameEnd == InitGameEnd /\ [][GameEndCheck]_vars

(* The check ends the match and reports the story result won for battle *)
StoryEnd(battle, won) ==
    /\ gameState' = [gameState EXCEPT !.gamePhase = "game_over"]
    /\ storyWinLoss' = Append(storyWinLoss, [battle |-> battle, won |-> won])
    /\ gameOverShown' = gameOverShown
    /\ obs'.cge = <<TRUE>>

(* The check finds the match not ended *)
NoEnd ==
    /\ gameState' = gameState
    /\ storyWinLoss' = storyWinLoss
    /\ gameOverShown' = gameOverShown
    /\ obs'.cge = <<FALSE>>

(* The non-eliminated players on the last space *)
Arrived == {id \in Active : gameState.players[id].position >= WINNING_POSITION}

TeamOut == gameState.players[1].isEliminated /\ gameState.players[4].isEliminated

C25_Step ==
    gameState.currentStoryBattle = "necroverso_final" =>
        /\ gameState.necroversoHearts <= 0 => StoryEnd("necroverso_final", TRUE)
        /\ (gameState.necroversoHearts > 0 /\ TeamOut) => StoryEnd("necroverso_final", FALSE)
        /\ (gameState.necroversoHearts > 0 /\ ~TeamOut /\ Arrived = {}) => NoEnd

(* C25: in the final battle checkGameEnd reports a story win when necroversoHearts is
   0 or less, whoever is eliminated and wherever the pawns stand; otherwise a story
   loss when player 1 and player 4 are both eliminated, wherever the pawns stand;
   otherwise, with no pawn on the last space, the match goes on *)
C25_FinalBattleEnd == [][C25_Step]_vars

(* Hearts exhausted and the player team eliminated: reported once, as a win *)
C25_Witness ==
    /\ gameState.currentStoryBattle = "necroverso_final"
    /\ gameState.necroversoHearts <= 0 /\ TeamOut
    /\ Arrived # {}
    /\ gameState.gamePhase = "game_over"
    /\ storyWinLoss = <<[battle |-> "necroverso_final", won |-> TRUE]>>

C26_Step ==
    gameState.isKingNecroBattle =>
        /\ Cardinality(Active) <= 1 => StoryEnd(gameState.currentStoryBattle, Active = {1})
        /\ (Cardinality(Active) >= 2 /\ Arrived = {}) => NoEnd
        /\ (Cardinality(Active) >= 2 /\ Arrived # {}) =>
               StoryEnd(gameState.currentStoryBattle, 1 \in Arrived)

(* C26: in a King battle checkGameEnd ends the match when at most one player is not
   eliminated, with won true exactly when player 1 is the one who remains; with two or
   more remaining the match ends only by a pawn on the last space *)
C26_KingBattleEnd == [][C26_Step]_vars

(* Nobody survives the King battle: reported as a loss *)
C26_Witness ==
    /\ gameState.isKingNecroBattle
    /\ Active = {}
    /\ gameState.gamePhase = "game_over"
    /\ storyWinLoss = <<[battle |-> gameState.currentStoryBattle, won |-> FALSE]>>

(* The check ends a match outside story mode: the game-over screen is shown once *)
PlainEnd ==
    /\ gameState' = [gameState EXCEPT !.gamePhase = "game_over"]
    /\ storyWinLoss' = storyWinLoss
    /\ gameOverShown' = gameOverShown + 1
    /\ obs'.cge = <<TRUE>>

(* Player 1 is the winner of the Xael challenge among the players arrived *)
Player1Beats ==
    /\ 1 \in Arrived
    /\ 2 \in Arrived => gameState.players[1].stars > gameState.players[2].stars

C27_Step ==
    (gameState.currentStoryBattle # "necroverso_final" /\ ~gameState.isKingNecroBattle) =>
        /\ Arrived = {} => NoEnd
        /\ (Arrived # {} /\ ~gameState.isStoryMode) => PlainEnd
        /\ (Arrived # {} /\ gameState.isStoryMode /\ gameState.isXaelChallenge) =>
               StoryEnd(gameState.currentStoryBattle, Player1Beats)
        /\ (Arrived # {} /\ gameState.isStoryMode /\ ~gameState.isXaelChallenge) =>
               StoryEnd(gameState.currentStoryBattle, 1 \in Arrived)

(* C27: outside the final and King battles the match ends exactly when a player who
   is not eliminated stands on the last space; in the Xael challenge with both
   players arrived, player 1 wins only with strictly more stars than player 2, and
   one result is reported; an eliminated player on the last space ends nothing *)
C27_StandardWin == [][C27_Step]_vars

(* Both arrive in the Xael challenge with equal stars: Xael wins *)
C27_Witness ==
    /\ gameState.isXaelChallenge
    /\ Arrived = {1, 2}
    /\ gameState.players[1].stars = gameState.players[2].stars
    /\ gameState.gamePhase = "game_over"
    /\ storyWinLoss = <<[battle |-> gameState.currentStoryBattle, won |-> FALSE]>>

(* No player is visited twice in the pass s *)
OncePerPlayer(s) == \A i, j \in 1..Len(s) : s[i].id = s[j].id => i = j

(* What the space did is what its colour selects *)
ByColour(v) ==
    CASE v.color = "black" -> v.did \in {"eliminate", "heart"}
      [] v.color = "yellow" -> v.did = "versatrix"
      [] v.color = "star" -> v.did = "star"
      [] OTHER -> v.did = "named" /\ v.effectName # "null"

Marked(v) == gameState.boardPaths[v.path][v.pos].isUsed

(* The Versatrix modal of the visit v is still open *)
ModalOpen(v) ==
    /\ v.did = "versatrix"
    /\ \E k \in 1..Len(tasks) :
           /\ tasks[k][1].pc = "tfe_yellow"
           /\ tasks[k][1].path = v.path /\ tasks[k][1].pos = v.pos

(* The player id stands on a space that has nothing left to do *)
Settled(id) ==
    LET p == gameState.players[id] IN
    \/ p.isEliminated \/ p.pathId = -1
    \/ gameState.boardPaths[p.pathId][p.position].isUsed
    \/ /\ gameState.boardPaths[p.pathId][p.position].color \notin {"black", "yellow", "star"}
       /\ gameState.boardPaths[p.pathId][p.position].effectName = "null"

(* C28: in a pass of triggerFieldEffects a player is visited at most once, what a
   space does is the one behaviour of its colour (elimination or heart loss on black,
   the Versatrix step on yellow, the star on star, the named effect elsewhere),
   every space that fired is marked used, and at the end of a pass every player
   stands on a used or plain space unless the pass itself moved them there *)
C28_OneBehaviourPerSpace ==
    /\ OncePerPlayer(history.visits) /\ OncePerPlayer(obs.pass)
    /\ \A k \in 1..Len(history.visits) :
           /\ ByColour(history.visits[k])
           /\ Marked(history.visits[k])
              \/ (k = Len(history.visits) /\ ModalOpen(history.visits[k]))
    /\ \A k \in 1..Len(obs.pass) :
           /\ ByColour(obs.pass[k]) /\ Marked(obs.pass[k])
           /\ obs.pass[k].did # "named" => ~Targeted(gameState.activeFieldEffects, obs.pass[k].id)
    /\ obs.tfe = "done" =>
           \A id \in 1..NP(gameState) :
               \/ Settled(id)
               \/ \E k \in 1..Len(obs.pass) :
                      obs.pass[k].id = id /\ obs.pass[k].did \in {"versatrix", "heart"}

(* A pass ends in which a player took the Versatrix step on a yellow space that
   carries the name of an effect, and has left the space *)
C28_Witness ==
    /\ obs.tfe = "done"
    /\ \E k \in 1..Len(obs.pass) :
           /\ obs.pass[k].did = "versatrix"
           /\ obs.pass[k].effectName # "null"
           /\ gameState.players[obs.pass[k].id].position # obs.pass[k].pos
           /\ Marked(obs.pass[k])

(* The hearts counter after the k-th visit of the pass that has just ended *)
HeartsAfter(k) ==
    IF k < Len(obs.pass) THEN obs.pass[k + 1].hearts ELSE gameState.necroversoHearts

(* The player of the visit v belongs to the Necroverso team of the final battle *)
HitsHearts(v) ==
    /\ gameState.currentStoryBattle = "necroverso_final"
    /\ gameState.players[v.id].aiType = "necroverso_final"

(* C29: on an unused black space a necroverso_final player of the final battle costs
   the shared counter exactly one heart, goes back to position 1 and stays in the
   game; when the counter reaches 0 the pass stops there, the match is over and a
   story win is reported; every other player on a black space is eliminated *)
C29_BlackSpaceHearts ==
    \A k \in 1..Len(obs.pass) :
        obs.pass[k].color = "black" =>
            IF HitsHearts(obs.pass[k])
            THEN /\ obs.pass[k].did = "heart"
                 /\ HeartsAfter(k) = obs.pass[k].hearts - 1
                 /\ gameState.players[obs.pass[k].id].position = 1
                 /\ ~gameState.players[obs.pass[k].id].isEliminated
                 /\ HeartsAfter(k) <= 0 =>
                        /\ k = Len(obs.pass) /\ obs.tfe = "stopped"
                        /\ gameState.gamePhase = "game_over"
                        /\ storyWinLoss # <<>>
                        /\ \A e \in 1..Len(storyWinLoss) :
                               storyWinLoss[e] = [battle |-> "necroverso_final", won |-> TRUE]
                        /\ tasks = <<>>
            ELSE /\ obs.pass[k].did = "eliminate"
                 /\ HeartsAfter(k) = obs.pass[k].hearts
                 /\ gameState.players[obs.pass[k].id].isEliminated

(* The last heart is lost and the pass stops: a player later in the turn order is
   left standing on a black space that has not fired *)
C29_Witness ==
    /\ obs.tfe = "stopped"
    /\ gameState.necroversoHearts = 0
    /\ \E k \in 1..Len(obs.pass) : obs.pass[k].did = "heart" /\ obs.pass[k].hearts = 1
    /\ \E id \in Active :
           /\ gameState.players[id].pathId # -1
           /\ gameState.boardPaths[gameState.players[id].pathId]
                                   [gameState.players[id].position].color = "black"
           /\ ~Settled(id)

(* C30: when a pass of triggerFieldEffects has eliminated a player on a black space
   and thereby wiped the player team of the final battle or left at most one player
   in the game, the match is over: gamePhase is game_over, a result has been
   reported and no turn is given *)
C30_EliminationEndsGame ==
    (/\ obs.tfe # "none"
     /\ \E k \in 1..Len(obs.pass) : obs.pass[k].did = "eliminate"
     /\ \/ gameState.currentStoryBattle = "necroverso_final" /\ TeamOut
        \/ Cardinality(Active) <= 1) =>
        /\ gameState.gamePhase = "game_over"
        /\ storyWinLoss # <<>> \/ gameOverShown > 0
        /\ \A id \in 1..NP(gameState) : ~TurnGiven(id)

(* The field effects recorded in the round numbered turn *)
NotedIn(turn) == IF history.noted.turn = turn THEN history.noted.recs ELSE <<>>

(* C31: activeFieldEffects holds exactly the records appended in the current round,
   in the order of their recording: a record stays, with its name and target, until
   the resolution of its round, whose computation reads it, and the start of the
   next round removes it before a new record is appended *)
C31_FieldEffectLifecycle ==
    /\ Named(gameState.activeFieldEffects) = NotedIn(gameState.turn)
    /\ obs.moved # <<>> => Named(obs.moved[1].effects) = NotedIn(obs.moved[1].turn)

(* A resolution reads the effect recorded in its round; the next round has begun
   without it *)
C31_Witness ==
    /\ obs.moved # <<>> /\ obs.began
    /\ obs.moved[1].effects # <<>>
    /\ obs.moved[1].turn > 1
    /\ gameState.turn = obs.moved[1].turn + 1
    /\ gameState.activeFieldEffects = <<>>

(* C32: while gamePhase is playing no player who is still in the match stands at or
   beyond WINNING_POSITION *)
C32_NoArrivalWhilePlaying ==
    gameState.gamePhase = "playing" =>
        \A id \in 1..NP(gameState) :
            ~gameState.players[id].isEliminated =>
                gameState.players[id].position < WINNING_POSITION

(* A resolution moved a player to WINNING_POSITION and the check ended the match *)
C32_Witness ==
    /\ obs.moved # <<>>
    /\ Arrived # {}
    /\ obs.cge # <<>>
    /\ gameState.gamePhase = "game_over"

(* A field effect of the round start moved a player to WINNING_POSITION and the
   check ended the match *)
C32_WitnessFieldEffect ==
    /\ obs.tfe = "done"
    /\ obs.moved = <<>>
    /\ Arrived # {}
    /\ gameState.gamePhase = "game_over"

(* The visits made by the step: the tail of the pass beyond what it had visited *)
StepVisits ==
    IF obs'.tfe # "none"
    THEN SubSeq(obs'.pass, Len(history.visits) + 1, Len(obs'.pass))
    ELSE SubSeq(history'.visits, Len(history.visits) + 1, Len(history'.visits))

(* The number of landings of the Necroverso team on a black space in the step *)
HeartLandings == Cardinality({k \in DOMAIN StepVisits : StepVisits[k].did = "heart"})

(* C33: necroversoHearts is never negative; a step takes from it exactly one heart
   per landing of a necroverso_final player on a black space; at 0 in the final
   battle the match is over, and from 0 it is not decremented again *)
C33_HeartsNeverNegative ==
    /\ [](/\ gameState.necroversoHearts >= 0
          /\ (gameState.currentStoryBattle = "necroverso_final"
              /\ gameState.necroversoHearts = 0) => gameState.gamePhase = "game_over")
    /\ [][/\ gameState'.necroversoHearts = gameState.necroversoHearts - HeartLandings
          /\ gameState.necroversoHearts = 0 => HeartLandings = 0]_vars

(* The last heart was lost on a black space and the match is over *)
C33_Witness ==
    /\ gameState.currentStoryBattle = "necroverso_final"
    /\ gameState.necroversoHearts = 0
    /\ gameState.gamePhase = "game_over"
    /\ \E k \in 1..Len(obs.pass) : obs.pass[k].did = "heart" /\ obs.pass[k].hearts = 1

(* No player is left in the match *)
NoPlayers == ActiveCount = 0

(* A round has begun with no player left and an AI player holds the first turn *)
RoundWithoutPlayers ==
    /\ NoPlayers
    /\ obs.began
    /\ gameState.gamePhase # "game_over"
    /\ ~gameState.players[gameState.currentPlayer].isHuman

----------------------------------------------------------------------------
(* The match as long as it runs.  gameState.turn is written at the round start
   (turn-manager.js:222) and read by the log line 224 alone: rounds beyond MaxTurn
   are kept under the number MaxTurn, which makes the endless match finite-state *)

CapTurn(w) == [w EXCEPT !.gs.turn = Min(w.gs.turn, MaxTurn)]

SummaryAckOn ==
    \E k \in 1..Len(tasks), victim \in Victims :
        /\ At(k, "summary")
        /\ Commit(CapTurn(RunStack(ResolveRound(Taking(k), tasks[k][1].winners,
                                                [NoInput EXCEPT !.victim = victim]),
                                   Tail(tasks[k]), NoInput)))

(* Two players at the end of a round, on boards whose second space is black, yellow
   or named *)
LastRoundFamily ==
    \E name \in {"solo", "versatrix"},
       kind \in {Kind("black", "null"), Kind("yellow", "null"), Kind("red", "Castigo")} :
      \E pos2 \in {1, 2}, p1 \in {<<4>>, <<6>>}, m1 \in {"null", "Sobe"},
         m2 \in {"null", "Sobe"} :
        InitRoundEnd(ModeOf(name), kind, 0, <<Mover(1, p1, m1), Mover(pos2, <<5>>, m2)>>)

InitOn == LastRoundFamily \/ AiFamily

(* The human ends each turn without playing a card *)
NextOn ==
    \/ HumanPass
    \/ TurnIndicatorAck
    \/ AiThink
    \/ AiEffect
    \/ AiPlay
    \/ AiPass
    \/ SummaryAckOn
    \/ VersatrixAck
    \/ FieldEffectAck

(* The round summary, or the notice of a named field effect, is on the screen: the
   states in which SummaryAckOn, or FieldEffectAck, is enabled *)
SummaryShown == \E k \in 1..Len(tasks) : At(k, "summary")

NoticeShown == \E k \in 1..Len(tasks) : At(k, "tfe_named")

(* Every timer fires, every prompt is acknowledged and the human ends every turn
   they are given.  The last three conjuncts are WF_vars(SummaryAckOn),
   WF_vars(FieldEffectAck) and WF_vars(HumanPass) with ENABLED written out *)
FairOn ==
    /\ WF_vars(TurnIndicatorAck)
    /\ WF_vars(AiThink)
    /\ WF_vars(AiEffect)
    /\ WF_vars(AiPlay)
    /\ WF_vars(AiPass)
    /\ WF_vars(VersatrixAck)
    /\ ([]<>(~SummaryShown) \/ []<><<SummaryAckOn>>_vars)
    /\ ([]<>(~NoticeShown) \/ []<><<FieldEffectAck>>_vars)
    /\ ([]<>(~HumanMayAct) \/ []<><<HumanPass>>_vars)

SpecOn == InitOn /\ [][NextOn]_vars /\ FairOn

(* C34: once no player is left in the match, the match reaches game_over *)
C34_NoEndlessRounds == NoPlayers ~> (gameState.gamePhase = "game_over")

(* The number of last-call notices of the current round *)
CallsInRound == history.calls.n

(* The advance that gave the turn wrote the notice exactly when it found
   consecutivePasses equal to the number of players in the match, and it changed
   neither the counter nor the choice of the next player *)
CallIsInformational ==
    obs.adv # <<>> =>
        /\ obs.lastCall <= 1
        /\ (obs.lastCall = 1) <=> (obs.adv[1].passes = ActiveCount)
        /\ gameState.consecutivePasses = obs.adv[1].passes
        /\ \E d \in 1..NP(gameState) : FirstActiveAt(obs.adv[1], d)

(* C35: the last-call notice is emitted by the advance that finds consecutivePasses
   equal to the number of players in the match, at most once in a round, and
   emitting it changes no game state *)
C35_LastCallOncePerRound == CallIsInformational /\ CallsInRound <= 1

(* C35, amended: the notice is emitted by the advance that finds consecutivePasses
   equal to the number of players in the match, at most once between two resets of
   consecutivePasses (a card played, a round started), and emitting it changes no
   game state *)
C35_LastCallOncePerRun == CallIsInformational /\ history.calls.run <= 1

(* The notice is emitted for the second time in a round, after a card was played *)
C35_Witness ==
    /\ obs.lastCall = 1
    /\ obs.adv # <<>>
    /\ CallsInRound = 2
    /\ history.calls.run = 1

(* The pile after holds the pile before, then the cards of kind that the players
   still in the match had played, and nothing else *)
Discarded(r, kind) ==
    LET old == r.before.discardPiles[kind]
        new == r.after.discardPiles[kind]
    IN  /\ Len(new) >= Len(old)
        /\ SubSeq(new, 1, Len(old)) = old
        /\ CardIds(SubSeq(new, Len(old) + 1, Len(new))) =
               UNION {CardIds(r.before.players[id].playedCards[kind]) :
                         id \in {x \in DOMAIN r.before.players :
                                    ~r.before.players[x].isEliminated}}
        /\ Len(new) - Len(old) = Cardinality(CardIds(SubSeq(new, Len(old) + 1, Len(new))))
        /\ \A k \in (Len(old) + 1)..Len(new) : new[k].type = kind

(* The reset r of startNewRound has treated the player id as one still in the match *)
PlayerReset(r, id) ==
    LET b == r.before.players[id]
        a == r.after.players[id]
    IN  /\ a.playedCards = [value |-> <<>>, effect |-> <<>>]
        /\ a.effects = [score |-> "null", movement |-> "null"]
        /\ a.targetPathForPula = -1
        /\ a.resto = (IF b.nextResto # Null THEN b.nextResto ELSE b.resto)
        /\ a.nextResto = Null

(* The reset r has left the player id, eliminated, alone *)
PlayerKept(r, id) ==
    LET b == r.before.players[id]
        a == r.after.players[id]
    IN  /\ a.playedCards = b.playedCards
        /\ a.effects = b.effects
        /\ a.resto = b.resto

(* C36: the reset of startNewRound adds 1 to turn, except in the first round, sets
   consecutivePasses to 0 and empties activeFieldEffects and revealedHands before
   the field effects run; of every player still in the match it moves the played
   cards to the discard pile of their kind, clears the effects and
   targetPathForPula and makes nextResto the resto; it leaves the played cards, the
   effects and the resto of the eliminated players as they were *)
C36_RoundStartReset ==
    obs.reset # <<>> =>
        LET r == obs.reset[1] IN
        /\ r.after.turn = r.before.turn + (IF r.first THEN 0 ELSE 1)
        /\ r.after.consecutivePasses = 0
        /\ r.after.activeFieldEffects = <<>>
        /\ r.after.revealedHands = <<>>
        /\ Discarded(r, "value")
        /\ Discarded(r, "effect")
        /\ \A id \in DOMAIN r.before.players :
               IF r.before.players[id].isEliminated
               THEN PlayerKept(r, id)
               ELSE PlayerReset(r, id)

(* A later round starts with an eliminated player who keeps played cards and a player
   still in the match whose played cards are discarded and whose nextResto is
   promoted *)
C36_Witness ==
    /\ obs.reset # <<>>
    /\ ~obs.reset[1].first
    /\ \E id \in DOMAIN obs.reset[1].before.players :
          /\ obs.reset[1].before.players[id].isEliminated
          /\ obs.reset[1].before.players[id].playedCards.value # <<>>
    /\ \E id \in DOMAIN obs.reset[1].before.players :
          /\ ~obs.reset[1].before.players[id].isEliminated
          /\ obs.reset[1].before.players[id].playedCards.value # <<>>
          /\ obs.reset[1].before.players[id].nextResto # Null
          /\ obs.reset[1].before.players[id].nextResto # obs.reset[1].before.players[id].resto

(* The first round starts: turn is as it was *)
C36_WitnessFirstRound ==
    /\ obs.reset # <<>>
    /\ obs.reset[1].first
    /\ obs.reset[1].after.turn = obs.reset[1].before.turn

(* The player id drew, in drawn, a card above the card of every other player *)
DrewHighest(drawn, id) ==
    \A other \in (1..Len(drawn)) \ {id} : drawn[id].value > drawn[other].value

(* The match starts without a draw *)
SkipsDraw ==
    gameState.isInversusMode \/ gameState.isFinalBoss \/ gameState.isXaelChallenge

(* A task of the match start is at pc *)
Starting(pc) == \E k \in 1..Len(tasks) : Alone(k, pc)

(* The cards shown by the draw in progress *)
Drawn == tasks[CHOOSE k \in 1..Len(tasks) : Alone(k, "draw_reveal")][1].drawn

(* The first round is started by the step *)
FirstRoundStarts == obs'.reset # <<>> /\ obs'.reset[1].first

(* The draw is revealed: with a highest card its holder becomes the current player
   and the cards are kept; without one the cards go to the value discard pile and
   the start sequence runs again; no round starts either way *)
RevealStep ==
    Starting("draw_reveal") =>
        /\ ~FirstRoundStarts
        /\ IF \E id \in 1..Len(Drawn) : DrewHighest(Drawn, id)
           THEN /\ DrewHighest(Drawn, gameState'.currentPlayer)
                /\ gameState'.initialDrawCards = Drawn
                /\ gameState'.discardPiles = gameState.discardPiles
                /\ \E k \in 1..Len(tasks') : tasks'[k][1].pc = "draw_done"
           ELSE /\ gameState'.discardPiles.value = gameState.discardPiles.value \o Drawn
                /\ gameState'.initialDrawCards = <<>>
                /\ obs'.redraw
                /\ \E k \in 1..Len(tasks') : tasks'[k][1].pc = "draw_wait"

(* The decided draw is closed: every player's resto is the card they drew, the
   current player is the one who drew the highest card and the first round starts *)
DoneStep ==
    Starting("draw_done") =>
        /\ FirstRoundStarts
        /\ gameState'.currentPlayer = gameState.currentPlayer
        /\ DrewHighest(gameState.initialDrawCards, gameState'.currentPlayer)
        /\ \A id \in 1..NP(gameState) :
               gameState'.players[id].resto = gameState.initialDrawCards[id]

(* The start sequence is called: the first round starts at once in the inversus,
   final-boss and Xael modes, and in no other *)
StartStep ==
    Starting("start") =>
        /\ FirstRoundStarts <=> SkipsDraw
        /\ SkipsDraw => gameState'.initialDrawCards = <<>>
        /\ ~SkipsDraw => \E k \in 1..Len(tasks') : tasks'[k][1].pc = "draw_wait"

(* The cards are dealt for the draw: no round starts, and after a failed deal none
   will *)
DealStep ==
    Starting("draw_wait") =>
        /\ ~FirstRoundStarts
        /\ obs'.dealFailed => tasks' = <<>>

(* C37: the first current player is the one who drew the strictly highest card and
   each initial resto is the card its player drew in the deciding draw; when the two
   highest cards are equal the drawn cards go to the value discard pile and the draw
   is repeated; no round starts before a draw is decided, and none after a failed
   deal; the inversus, final-boss and Xael modes start the first round without a
   draw *)
C37_InitialDraw == [][StartStep /\ DealStep /\ RevealStep /\ DoneStep]_vars

(* After a tie and a decided second draw the first round has begun: the cards of the
   first draw are in the discard pile, those of the second are the restos *)
C37_Witness ==
    /\ obs.began
    /\ obs.reset # <<>> /\ obs.reset[1].first
    /\ gameState.initialDrawCards # <<>>
    /\ gameState.discardPiles.value # <<>>
    /\ \A id \in 1..NP(gameState) : gameState.players[id].resto = gameState.initialDrawCards[id]
    /\ DrewHighest(gameState.initialDrawCards, gameState.currentPlayer)

(* A match in a mode without draw has begun its first round *)
C37_WitnessNoDraw ==
    /\ SkipsDraw
    /\ obs.began
    /\ obs.reset # <<>> /\ obs.reset[1].first
    /\ gameState.initialDrawCards = <<>>

----------------------------------------------------------------------------
(* Achievements granted one after the other, from none, in or out of the tutorial *)

InitAchievements ==
    \E battle \in {"none", "tutorial_necroverso", "contravox"} :
        /\ gameState = [MkGameState(ModeOf("contravox"), Plain, <<4, 2, 4, 2>>, <<>>,
                                    <<1, 1>>, 1)
                           EXCEPT !.currentStoryBattle = battle]
        /\ tasks = <<>>
        /\ storyWinLoss = <<>>
        /\ gameOverShown = 0
        /\ history = NoHistory(gameState)
        /\ obs = NoObs
        /\ achievements = NoAchievements

GrantAchievement ==
    \E id \in ACHIEVEMENTS :
        /\ id # "all_achievements"
        /\ Commit(grantAchievement([World EXCEPT !.obs.granted = id], id))

SpecAchievements == InitAchievements /\ [][GrantAchievement]_vars

(* all_achievements is unlocked exactly when every other achievement is *)
AllIffEveryOther ==
    "all_achievements" \in achievements.unlocked
        <=> (ACHIEVEMENTS \ {"all_achievements"}) \subseteq achievements.unlocked

(* Every unlocked achievement was notified once, and nothing else was *)
NotifiedOnce ==
    /\ SeqToSet(achievements.notified) = achievements.unlocked
    /\ Len(achievements.notified) = Cardinality(achievements.unlocked)

(* C38: after grants of ids other than all_achievements, from an empty set,
   all_achievements is unlocked if and only if every other achievement of the
   catalog is; granting an id that is already unlocked changes neither the set nor
   the notifications *)
C38_AllAchievements ==
    /\ [](AllIffEveryOther /\ NotifiedOnce)
    /\ [][obs'.granted \in achievements.unlocked => achievements' = achievements]_vars

(* The last of the other achievements has brought all_achievements, and the first
   one unlocked has then been granted again *)
C38_Witness ==
    /\ "all_achievements" \in achievements.unlocked
    /\ achievements.notified[Len(achievements.notified)] = "all_achievements"
    /\ obs.granted = achievements.notified[1]
    /\ achievements.saved = ACHIEVEMENTS

====
